---- MODULE Spec2Model ----
(***************************************************************************)
(* Waveform-drawing-to-sound event scheduler of cartmarsh/toneSamples.     *)
(*                                                                         *)
(* The repository holds four generations of the synth-wave page that share *)
(* the Point {x, y, time, isNewLine, gapDuration} data model.  The         *)
(* variable `variant` says which of them is mounted:                       *)
(*   "page"    src/src/app/components/synth-wave/page.tsx                  *)
(*   "layered" src/unnamed/part_002, lines 1-1235 (three synth voices)     *)
(*   "edit"    src/unnamed/part_002, lines 1761-2655 (transform tooltip)   *)
(*   "basic"   src/unnamed/part_003 (no edit mode)                         *)
(* (src/unnamed/part_002 lines 1236-1760 is an older page whose points     *)
(* carry no time and no line markers; it is outside this data model.)      *)
(*                                                                         *)
(* Units.  Times are integers in centiseconds (0.1 s = 10).  x is an       *)
(* integer number of canvas pixels.  y is an exact rational <<num, den>>   *)
(* in lowest terms, because smooth and stretch divide; IEEE rounding of    *)
(* the JavaScript doubles is not modelled.  A missing gapDuration          *)
(* (undefined) is modelled as 0: every read in the source goes through a   *)
(* truthiness test, which treats the two alike.  Array indices are the     *)
(* source's 0-based indices; At(s, i) reads s[i] of the source.            *)
(*                                                                         *)
(* Every React handler is one atomic action over the committed state.      *)
(***************************************************************************)
EXTENDS Integers, Sequences, FiniteSets, TLC

\* ------------------------------------------------------------------ bounds
MaxPoints == 2          \* points captured per behaviour
MaxTicks == 2           \* clock advances per behaviour
MaxEdits == 1           \* transforms applied per behaviour
MaxSaved == 1           \* saves explored by Spec (SpecBank runs to the real cap)
MaxEvents == 2          \* timeline events created per behaviour
MaxPlays == 2           \* starts of the playhead loop per behaviour
MaxElapsed == 300       \* how far SpecTimeline lets the clock run
MaxTestLen == 3         \* longest argument handed to playSound by SpecPlay

\* ------------------------------------------------------- program constants
NEW_LINE_THRESHOLD == 10        \* timeDiff > 0.1
NEAR_LINE_PX == 15              \* distance < 15
GAP_HANDLE_PX == 10             \* distance < 10
CS_PER_PX == 2                  \* centiseconds of gap per handle pixel: 100 / 50
MAX_GAP_WIDTH == 150            \* layered handleGapAdjustment
MAX_SOUNDS == 10                \* savedSounds.length >= 10
FINAL_RELEASE_EPS == 5          \* + 0.05
TAIL == 50                      \* + 0.5
LAYER_RELEASE_LEAD == 30        \* - 0.3
SUB_DELAY == 2                  \* + 0.02
PAD_DELAY == 4                  \* + 0.04
SUB_RELEASE_DELAY == 10         \* + 0.1
PAD_RELEASE_DELAY == 20         \* + 0.2
DEFAULT_DURATION == 100         \* duration = 1 / ": 1"
CANVAS_HEIGHT == 400            \* height={400}
F_HIGH == 880
F_LOW == 110
PIXELS_PER_SECOND == 100        \* timeline pixels per second
EVENT_DURATION == 100           \* duration: 1
TIMELINE_RELEASE_LEAD == 10     \* event.duration - 0.1
ARPEGGIO_STEP == 30
LOOK_AHEAD == 10                \* Tone.now() is never below the look-ahead

Null == -1                      \* null for times, indices

\* ---------------------------------------------------------------- inputs
Variants == {"page", "layered", "edit", "basic"}
Scales == {1, 2}                \* canvas.width / rect.width
Deltas == {5, 50}               \* clock advances between two events
Positions == {<<0, 0>>, <<24, 12>>}   \* pointer offsets in the canvas box
Names == {"", "a"}
Effects == {"smooth", "stretch", "arpeggio"}
STRETCH_FACTOR == <<3, 2>>      \* stretchLine(segmentPoints, 1.5)

\* ------------------------------------------------------- exact arithmetic
Abs(n) == IF n < 0 THEN -n ELSE n

RECURSIVE GCD(_, _)
GCD(a, b) == IF b = 0 THEN a ELSE GCD(b, a % b)

LCM(a, b) == (a \div GCD(a, b)) * b

\* the rational n/d in lowest terms with a positive denominator
Rat(n, d) ==
  LET s == IF d < 0 THEN -1 ELSE 1
      g == GCD(Abs(n), Abs(d))
  IN  <<(s * n) \div g, (s * d) \div g>>

RInt(n) == <<n, 1>>
RAdd(a, b) == Rat(a[1] * b[2] + b[1] * a[2], a[2] * b[2])
RSub(a, b) == Rat(a[1] * b[2] - b[1] * a[2], a[2] * b[2])
RMul(a, b) == Rat(a[1] * b[1], a[2] * b[2])
RDivInt(a, n) == Rat(a[1], a[2] * n)

\* c * c < m for m >= 0, without forming the square
SqLess(c, m) ==
  LET a == Abs(c)
  IN  IF a = 0 THEN m > 0
      ELSE a < m \div a \/ (a = m \div a /\ m % a > 0)

\* ------------------------------------------------------------ sequences
At(s, i) == s[i + 1]
Slice(s, from, to) == \* s.slice(from, to): clipped to the array
  LET lo == IF from < 0 THEN 0 ELSE from
      hi == IF to > Len(s) THEN Len(s) ELSE to
  IN  IF hi <= lo THEN <<>> ELSE [k \in 1..(hi - lo) |-> s[lo + k]]

RECURSIVE SumY(_)
SumY(points) ==
  IF points = <<>> THEN RInt(0) ELSE RAdd(Head(points).y, SumY(Tail(points)))

\* ---------------------------------------------------------------- points
Point(px, py, t, newLine, gap) ==
  [x |-> px, y |-> py, time |-> t, isNewLine |-> newLine, gapDuration |-> gap]

NoSegment == [startIndex |-> Null, endIndex |-> Null]
NoPosition == <<Null, Null>>

mapToFrequency(y, height) ==
  Rat(F_HIGH * height * y[2] - y[1] * (F_HIGH - F_LOW), height * y[2])

Cmd(v, k, t, f) == [voice |-> v, kind |-> k, time |-> t, freq |-> f]
NoFreq == RInt(0)

\* ----------------------------------------------------------------- state
VARIABLES
  variant,            \* which generation of the page is mounted
  scale,              \* canvas.width / rect.width = canvas.height / rect.height
  now,                \* Tone.now(), centiseconds
  ticks,              \* clock advances since the initial state
  waveformPoints,     \* the active point stream
  isDrawing,
  startTime,          \* Null or the clock value of the recording's first press
  lastDrawTime,
  lastLineEndTime,
  selectedGap,        \* Null or a point index
  editingState,       \* isEditMode, hoveredSegment, selectedSegment, tooltipPosition, selectedLineSettings
  savedSounds,        \* the Sound Bank
  currentSoundName,
  selectedWaveform,
  lastCall,           \* what the step that ran last did outside the page state:
                      \* the function that drove the synth ("" if none did), the
                      \* commands it issued in issue order, whether alert() was
                      \* called, whether the step threw, what playSound returned
                      \* and the points it was handed
  edits,              \* transforms applied since the initial state
  captured,           \* points captured since the initial state
  timelineEvents,     \* the timeline, in insertion order
  draggingEvent,      \* Null or the id of the event being dragged
  isPlaying,
  playheadPosition,
  activeEvents,       \* ids of the events shown as active
  animationFrameRef,  \* Null or the playhead loop whose frame was requested last
  frames,             \* the animation frames requested and neither run nor cancelled
  timers,             \* the setTimeout callbacks not yet run
  starting,           \* the timelines of the playTimeline calls suspended at await Tone.start()
  mounted,            \* FALSE once the component is torn down
  eventCount,         \* timeline events created since the initial state
  playCount           \* playhead loops started since the initial state

vars ==
  <<variant, scale, now, ticks, waveformPoints, isDrawing, startTime, lastDrawTime,
    lastLineEndTime, selectedGap, editingState, savedSounds, currentSoundName,
    selectedWaveform, lastCall, edits, captured, timelineEvents, draggingEvent,
    isPlaying, playheadPosition, activeEvents, animationFrameRef, frames, timers,
    starting, mounted, eventCount, playCount>>

timelineVars ==
  <<timelineEvents, draggingEvent, isPlaying, playheadPosition, activeEvents,
    animationFrameRef, frames, timers, starting, mounted, eventCount, playCount>>

captureVars ==
  <<waveformPoints, isDrawing, startTime, lastDrawTime, lastLineEndTime, captured>>

\* what each generation of the page has and wires to its JSX
HasEditMode == variant \in {"page", "layered", "edit"}
ScalesCapture == variant \in {"page", "layered", "edit"}
SaveWired == variant \in {"layered", "edit", "basic"}
ApplyEffectWired == variant = "edit"

\* !t for a nullable number
Falsy(t) == t = Null \/ t = 0

Call(op, log) ==
  [op |-> op, log |-> log, alerted |-> FALSE, threw |-> FALSE,
   returned |-> Null, played |-> <<>>]

Quiet == Call("", <<>>)

initialEditingState ==
  [isEditMode |-> FALSE, hoveredSegment |-> NoSegment, selectedSegment |-> NoSegment,
   tooltipPosition |-> NoPosition, selectedLineSettings |-> FALSE]

\* the timeline of the freshly mounted page
TimelineIdle ==
  /\ timelineEvents = <<>>
  /\ draggingEvent = Null
  /\ isPlaying = FALSE
  /\ playheadPosition = 0
  /\ activeEvents = {}
  /\ animationFrameRef = Null
  /\ frames = {}
  /\ timers = {}
  /\ starting = <<>>
  /\ mounted = TRUE
  /\ eventCount = 0
  /\ playCount = 0

\* the freshly mounted page, holding the stream `points`
Holding(points) ==
  /\ TimelineIdle
  /\ now = LOOK_AHEAD
  /\ ticks = 0
  /\ waveformPoints = points
  /\ isDrawing = FALSE
  /\ startTime = Null
  /\ lastDrawTime = Null
  /\ lastLineEndTime = Null
  /\ selectedGap = Null
  /\ editingState = initialEditingState
  /\ savedSounds = <<>>
  /\ currentSoundName = ""
  /\ selectedWaveform = "sine"
  /\ lastCall = Quiet
  /\ edits = 0
  /\ captured = 0

Mounted == Holding(<<>>)

\* the canvas is displayed at its intrinsic size
Init ==
  /\ variant \in Variants
  /\ scale = 1
  /\ Mounted

\* the handler `op` ran and issued the commands `log`
Handled(op, log) == lastCall' = IF log = <<>> THEN Quiet ELSE Call(op, log)

\* the audio clock advances between two events; no handler runs
Tick(d) ==
  /\ ticks < MaxTicks
  /\ ticks' = ticks + 1
  /\ now' = now + d
  /\ lastCall' = Quiet
  /\ UNCHANGED <<variant, scale, waveformPoints, isDrawing, startTime, lastDrawTime,
                 lastLineEndTime, selectedGap, editingState, savedSounds,
                 currentSoundName, selectedWaveform, edits, captured, timelineVars>>

\* ---------------------------------------------------------------- capture
getScaledCoordinates(pos) == <<pos[1] * scale, pos[2] * scale>>

\* the coordinates startDrawing and draw store for a pointer at offset pos
captureCoordinates(pos) == IF ScalesCapture THEN getScaledCoordinates(pos) ELSE pos

\* a press that stores its point without the line-start mark
startDrawingPointUnmarked(coords) ==
  Point(coords[1], RInt(coords[2]),
        now - (IF Falsy(startTime) THEN now ELSE startTime),
        FALSE,
        IF Falsy(lastLineEndTime) THEN 0 ELSE now - lastLineEndTime)

startDrawingPoint(coords) ==
  Point(coords[1], RInt(coords[2]),
        now - (IF Falsy(startTime) THEN now ELSE startTime),
        TRUE,
        IF Falsy(lastLineEndTime) THEN 0 ELSE now - lastLineEndTime)

startDrawing(pos) ==
  LET coords == captureCoordinates(pos)
  IN  /\ captured < MaxPoints
      /\ captured' = captured + 1
      /\ isDrawing' = TRUE
      /\ startTime' = IF Falsy(startTime) THEN now ELSE startTime
      /\ waveformPoints' = Append(waveformPoints, startDrawingPoint(coords))
      /\ lastDrawTime' = now
      /\ Handled("startDrawing",
                 <<Cmd("main", "triggerAttack", now,
                       mapToFrequency(RInt(coords[2]), CANVAS_HEIGHT))>>)
      /\ UNCHANGED lastLineEndTime

\* a sample timed from the previous sample instead of the recording's start
drawPointSinceLastSample(coords) ==
  Point(coords[1], RInt(coords[2]),
        now - lastDrawTime,
        now - lastDrawTime > NEW_LINE_THRESHOLD,
        0)

\* a sample that starts a line from a pause of 0.1 s on
drawPointAtThreshold(coords) ==
  Point(coords[1], RInt(coords[2]),
        now - (IF Falsy(startTime) THEN now ELSE startTime),
        now - lastDrawTime >= NEW_LINE_THRESHOLD,
        0)

drawPoint(coords) ==
  Point(coords[1], RInt(coords[2]),
        now - (IF Falsy(startTime) THEN now ELSE startTime),
        now - lastDrawTime > NEW_LINE_THRESHOLD,
        0)

draw(pos) ==
  LET coords == captureCoordinates(pos)
      newPoint == drawPoint(coords)
      frequency == mapToFrequency(RInt(coords[2]), CANVAS_HEIGHT)
  IN  IF ~isDrawing \/ Falsy(lastDrawTime)
      THEN Handled("draw", <<>>) /\ UNCHANGED captureVars
      ELSE /\ captured < MaxPoints
           /\ captured' = captured + 1
           /\ waveformPoints' = Append(waveformPoints, newPoint)
           /\ lastDrawTime' = now
           /\ Handled("draw",
                      IF newPoint.isNewLine
                      THEN <<Cmd("main", "triggerRelease", now, NoFreq),
                             Cmd("main", "triggerAttack", now, frequency)>>
                      ELSE <<Cmd("main", "setValueAtTime", now, frequency)>>)
           /\ UNCHANGED <<isDrawing, startTime, lastLineEndTime>>

stopDrawing ==
  /\ isDrawing' = FALSE
  /\ lastLineEndTime' = now
  /\ Handled("stopDrawing", <<Cmd("main", "triggerRelease", now, NoFreq)>>)
  /\ UNCHANGED <<waveformPoints, startTime, lastDrawTime, captured>>

clearDrawing ==
  /\ waveformPoints' = <<>>
  /\ startTime' = Null
  /\ lastDrawTime' = Null
  /\ Handled("clearDrawing", <<>>)
  /\ UNCHANGED <<isDrawing, lastLineEndTime, captured>>

\* ---------------------------------------------------------- segment index
distanceToLineBelow(r, x, y, x1, y1, x2, y2) ==
  LET K == LCM(y1[2], y2[2])
      A == x - x1
      Bn == y * K - y1[1] * (K \div y1[2])
      C == x2 - x1
      Dn == (y2[1] * (K \div y2[2])) - (y1[1] * (K \div y1[2]))
      lenK == C * C * K * K + Dn * Dn
  IN  IF lenK = 0 THEN A * A * K * K + Bn * Bn < r * r * K * K
      ELSE SqLess(A * Dn - Bn * C, r * r * lenK)

\* distanceToLineSegment(x, y, x1, y1, x2, y2) < r, decided without the square
\* root.  With K a common denominator of y1 and y2, the source's B and D are
\* Bn / K and Dn / K, so dot = dotK / K^2 and lenSq = lenK / K^2:
\*   lenSq = 0 or param < 0   the distance is that to (x1, y1)
\*   param > 1                the distance is that to (x2, y2)
\*   otherwise                dx^2 + dy^2 = (A * D - B * C)^2 / lenSq
distanceToLineSegmentBelow(r, x, y, x1, y1, x2, y2) ==
  LET K == LCM(y1[2], y2[2])
      A == x - x1
      Bn == y * K - y1[1] * (K \div y1[2])
      C == x2 - x1
      Dn == (y2[1] * (K \div y2[2])) - (y1[1] * (K \div y1[2]))
      dotK == A * C * K * K + Bn * Dn
      lenK == C * C * K * K + Dn * Dn
      B2n == y * K - y2[1] * (K \div y2[2])
  IN  IF lenK = 0 \/ dotK < 0
      THEN A * A * K * K + Bn * Bn < r * r * K * K
      ELSE IF dotK > lenK
      THEN (x - x2) * (x - x2) * K * K + B2n * B2n < r * r * K * K
      ELSE SqLess(A * Dn - Bn * C, r * r * lenK)

isClickNearLine(x, y, points) ==
  \E i \in 1..(Len(points) - 1) :
    distanceToLineSegmentBelow(NEAR_LINE_PX, x, y,
                               At(points, i - 1).x, At(points, i - 1).y,
                               At(points, i).x, At(points, i).y)

SegmentPastEnd(startIndex, endIndex, points) ==
  [startIndex |-> startIndex, endIndex |-> endIndex + 1, points |-> points]

Segment(startIndex, endIndex, points) ==
  [startIndex |-> startIndex, endIndex |-> endIndex, points |-> points]

NoMatch == [startIndex |-> Null, endIndex |-> Null, points |-> <<>>]

\* a search that keeps looking after a match and returns the last one
RECURSIVE findLastLineSegmentFrom(_, _, _, _, _, _)
findLastLineSegmentFrom(points, scaledX, scaledY, i, currentSegment, startIndex) ==
  IF i >= Len(points)
  THEN IF Len(currentSegment) > 0 /\ isClickNearLine(scaledX, scaledY, currentSegment)
       THEN Segment(startIndex, Len(points) - 1, currentSegment)
       ELSE NoMatch
  ELSE IF At(points, i).isNewLine /\ Len(currentSegment) > 0
       THEN LET later == findLastLineSegmentFrom(points, scaledX, scaledY, i + 1,
                                                 <<At(points, i)>>, i)
            IN  IF later # NoMatch THEN later
                ELSE IF isClickNearLine(scaledX, scaledY, currentSegment)
                THEN Segment(startIndex, i - 1, currentSegment)
                ELSE NoMatch
       ELSE findLastLineSegmentFrom(points, scaledX, scaledY, i + 1,
                                    Append(currentSegment, At(points, i)), startIndex)

\* the for loop of findLineSegment from index i on, then the check of the
\* last segment
RECURSIVE findLineSegmentFrom(_, _, _, _, _, _)
findLineSegmentFrom(points, scaledX, scaledY, i, currentSegment, startIndex) ==
  IF i >= Len(points)
  THEN IF Len(currentSegment) > 0 /\ isClickNearLine(scaledX, scaledY, currentSegment)
       THEN Segment(startIndex, Len(points) - 1, currentSegment)
       ELSE NoMatch
  ELSE IF At(points, i).isNewLine /\ Len(currentSegment) > 0
       THEN IF isClickNearLine(scaledX, scaledY, currentSegment)
            THEN Segment(startIndex, i - 1, currentSegment)
            ELSE findLineSegmentFrom(points, scaledX, scaledY, i + 1,
                                     <<At(points, i)>>, i)
       ELSE findLineSegmentFrom(points, scaledX, scaledY, i + 1,
                                Append(currentSegment, At(points, i)), startIndex)

findLineSegmentIn(points, sc, x, y) ==
  findLineSegmentFrom(points, x * sc, y * sc, 0, <<>>, 0)

findLineSegment(x, y) == findLineSegmentIn(waveformPoints, scale, x, y)

\* what the page keeps of a segment it found: the points field of a stored
\* segment is never read again
SegmentRef(segment) ==
  [startIndex |-> segment.startIndex, endIndex |-> segment.endIndex]

\* ------------------------------------------------------------- gap handles
\* page and layered handleMouseDown: the handle of point i sits at
\* (point.x + gapDuration * 50, point.y); hit when the distance is below 10
gapHandleHit(coords, point) ==
  /\ point.gapDuration # 0
  /\ LET d == point.y[2]
         dx2 == CS_PER_PX * (coords[1] - point.x) - point.gapDuration
         dy2 == CS_PER_PX * (coords[2] * d - point.y[1])
         r2 == CS_PER_PX * GAP_HANDLE_PX * d
     IN  d * d * dx2 * dx2 + dy2 * dy2 < r2 * r2

\* edit and basic handleCanvasClick: the handle of point i sits at
\* (prevPoint.x + gapDuration * 50, prevPoint.y); hit inside a 10 px box
gapHandleBoxHit(x, y, points, index) ==
  /\ At(points, index).gapDuration # 0
  /\ index >= 1
  /\ LET prevPoint == At(points, index - 1)
     IN  /\ Abs(CS_PER_PX * (x - prevPoint.x) - At(points, index).gapDuration)
              < CS_PER_PX * GAP_HANDLE_PX
         /\ Abs(y * prevPoint.y[2] - prevPoint.y[1]) < GAP_HANDLE_PX * prevPoint.y[2]

\* Array.prototype.findIndex over the indices that satisfy hit: the first, or -1
findIndex(hits) == IF hits = {} THEN -1 ELSE CHOOSE i \in hits : \A j \in hits : i <= j

\* --------------------------------------------------------------- playback
frequencyOf(point) == mapToFrequency(point.y, CANVAS_HEIGHT)

\* page.tsx playSound: what the forEach callback issues for points[index]
pageCommandsAt(points, base, index) ==
  LET point == At(points, index)
      time == base + point.time
      frequency == frequencyOf(point)
      onPoint ==
        IF point.isNewLine
        THEN (IF index > 0 /\ At(points, index - 1).gapDuration > 0
              THEN <<Cmd("main", "triggerRelease",
                         time - At(points, index - 1).gapDuration, NoFreq)>>
              ELSE <<>>)
             \o <<Cmd("main", "triggerAttack", time, frequency)>>
        ELSE <<Cmd("main", "setValueAtTime", time, frequency)>>
      lineEnd ==
        IF /\ index + 1 < Len(points)
           /\ At(points, index + 1).isNewLine
           /\ At(points, index + 1).gapDuration # 0
        THEN <<Cmd("main", "triggerRelease", time, NoFreq)>>
        ELSE <<>>
  IN  onPoint \o lineEnd

\* part_003 and the transform-tooltip page: the callback for points[index]
gapCommandsAt(points, base, index) ==
  LET point == At(points, index)
      time == base + point.time
      frequency == frequencyOf(point)
  IN  IF point.isNewLine
      THEN IF point.gapDuration > 0
           THEN <<Cmd("main", "triggerRelease", time - point.gapDuration, NoFreq),
                  Cmd("main", "triggerAttack", time, frequency)>>
           ELSE <<Cmd("main", "triggerAttack", time, frequency)>>
      ELSE <<Cmd("main", "setValueAtTime", time, frequency)>>

RECURSIVE pageForEach(_, _, _)
pageForEach(points, base, index) ==
  IF index >= Len(points) THEN <<>>
  ELSE pageCommandsAt(points, base, index) \o pageForEach(points, base, index + 1)

RECURSIVE gapForEach(_, _, _)
gapForEach(points, base, index) ==
  IF index >= Len(points) THEN <<>>
  ELSE gapCommandsAt(points, base, index) \o gapForEach(points, base, index + 1)

finalReleaseAtLastPoint(points, base) ==
  Cmd("main", "triggerRelease", base + At(points, Len(points) - 1).time, NoFreq)

finalRelease(points, base) ==
  Cmd("main", "triggerRelease", base + At(points, Len(points) - 1).time + FINAL_RELEASE_EPS,
      NoFreq)

\* the outcome of one playSound call: commands in issue order, whether the
\* call threw (the promise of the async function rejected), the value returned
Outcome(log, threw, returned) == [log |-> log, threw |-> threw, returned |-> returned]

\* page.tsx: points[points.length - 1].time throws on the empty array, after
\* a forEach that issued nothing
playSoundPage(points, base) ==
  IF Len(points) = 0 THEN Outcome(<<>>, TRUE, Null)
  ELSE Outcome(pageForEach(points, base, 0) \o <<finalRelease(points, base)>>, FALSE, Null)

\* part_003: lastPoint = points[0] is undefined on the empty array and
\* lastPoint.time throws
playSoundGap(points, base) ==
  IF Len(points) = 0 THEN Outcome(<<>>, TRUE, Null)
  ELSE Outcome(gapForEach(points, base, 0) \o <<finalRelease(points, base)>>, FALSE, Null)

\* [...points].sort((a, b) => a.time - b.time): stable, ascending in time
RECURSIVE insertByTime(_, _)
insertByTime(sorted, point) ==
  IF sorted = <<>> THEN <<point>>
  ELSE IF sorted[Len(sorted)].time <= point.time THEN Append(sorted, point)
  ELSE Append(insertByTime(SubSeq(sorted, 1, Len(sorted) - 1), point), sorted[Len(sorted)])

RECURSIVE sortByTime(_)
sortByTime(points) ==
  IF points = <<>> THEN <<>>
  ELSE insertByTime(sortByTime(SubSeq(points, 1, Len(points) - 1)), points[Len(points)])

HALF == <<1, 2>>
THREE_HALVES == <<3, 2>>

\* part_002 playSound: the callback for sortedPoints[index]; lastTime is Null
\* for -Infinity
layeredCommandsAt(sortedPoints, baseTime, index, skip) ==
  LET point == At(sortedPoints, index)
      mainFreq == frequencyOf(point)
      subFreq == RMul(mainFreq, HALF)
      padFreq == RMul(mainFreq, THREE_HALVES)
      time == baseTime + (point.time - At(sortedPoints, 0).time)
  IN  IF skip THEN <<>>
      ELSE IF point.isNewLine \/ index = 0
      THEN <<Cmd("main", "triggerAttack", time, mainFreq),
             Cmd("sub", "triggerAttack", time + SUB_DELAY, subFreq),
             Cmd("pad", "triggerAttack", time + PAD_DELAY, padFreq)>>
      ELSE <<Cmd("main", "linearRampToValueAtTime", time, mainFreq),
             Cmd("sub", "linearRampToValueAtTime", time, subFreq),
             Cmd("pad", "linearRampToValueAtTime", time, padFreq)>>

RECURSIVE layeredForEach(_, _, _, _)
layeredForEach(sortedPoints, baseTime, index, lastTime) ==
  IF index >= Len(sortedPoints) THEN <<>>
  ELSE LET time == baseTime + (At(sortedPoints, index).time - At(sortedPoints, 0).time)
           skip == lastTime # Null /\ time < lastTime
       IN  layeredCommandsAt(sortedPoints, baseTime, index, skip)
           \o layeredForEach(sortedPoints, baseTime, index + 1,
                             IF skip THEN lastTime ELSE time)

\* duration is Null when the caller passes none
soundDurationOf(points, duration) ==
  IF duration # Null /\ duration # 0 THEN duration
  ELSE IF Len(points) > 0
       THEN At(points, Len(points) - 1).time - At(points, 0).time + TAIL
       ELSE DEFAULT_DURATION

playSoundLayered(points, duration, baseTime) ==
  LET soundDuration == soundDurationOf(points, duration)
      sortedPoints == sortByTime(points)
      releaseTime == baseTime + soundDuration - LAYER_RELEASE_LEAD
  IN  IF Len(points) = 0 THEN Outcome(<<>>, TRUE, Null)
      ELSE Outcome(layeredForEach(sortedPoints, baseTime, 0, Null)
                   \o <<Cmd("main", "triggerRelease", releaseTime, NoFreq),
                        Cmd("sub", "triggerRelease", releaseTime + SUB_RELEASE_DELAY, NoFreq),
                        Cmd("pad", "triggerRelease", releaseTime + PAD_RELEASE_DELAY, NoFreq)>>,
                   FALSE, soundDuration)

\* playSound(points) of the mounted page, called at clock value base with no
\* duration and no delayStart
playSound(points, base) ==
  CASE variant = "page" -> playSoundPage(points, base)
    [] variant = "layered" -> playSoundLayered(points, Null, base)
    [] OTHER -> playSoundGap(points, base)

\* ------------------------------------------------------------- transforms
\* the loop bound taken one short: the last point is averaged with its
\* predecessor
smoothLineLastAveraged(points) ==
  [k \in 1..Len(points) |->
     IF k = 1 THEN points[k]
     ELSE IF k = Len(points)
     THEN [points[k] EXCEPT !.y = RDivInt(RAdd(points[k - 1].y, points[k].y), 2)]
     ELSE [points[k] EXCEPT
             !.y = RDivInt(RAdd(RAdd(points[k - 1].y, points[k].y), points[k + 1].y), 3)]]

smoothLine(points) ==
  [k \in 1..Len(points) |->
     IF k = 1 \/ k = Len(points) THEN points[k]
     ELSE [points[k] EXCEPT
             !.y = RDivInt(RAdd(RAdd(points[k - 1].y, points[k].y), points[k + 1].y), 3)]]

\* stretching around the first point's y instead of the mean
stretchLineAroundFirst(points, factor) ==
  IF points = <<>> THEN <<>>
  ELSE LET centerY == points[1].y
       IN  [k \in 1..Len(points) |->
              [points[k] EXCEPT
                 !.y = RAdd(centerY, RMul(RSub(points[k].y, centerY), factor))]]

\* on the empty array centerY is NaN and the map has nothing to map
stretchLine(points, factor) ==
  IF points = <<>> THEN <<>>
  ELSE LET centerY == RDivInt(SumY(points), Len(points))
       IN  [k \in 1..Len(points) |->
              [points[k] EXCEPT
                 !.y = RAdd(centerY, RMul(RSub(points[k].y, centerY), factor))]]

\* the arpeggio with the parities exchanged
applyArpeggioOddUp(points) ==
  LET baseY == points[1].y
  IN  [k \in 1..Len(points) |->
         [points[k] EXCEPT
            !.y = RAdd(baseY, RInt(IF (k - 1) % 2 = 0 THEN -ARPEGGIO_STEP ELSE ARPEGGIO_STEP))]]

applyArpeggio(points) ==
  LET baseY == points[1].y
  IN  [k \in 1..Len(points) |->
         [points[k] EXCEPT
            !.y = RAdd(baseY, RInt(IF (k - 1) % 2 = 0 THEN ARPEGGIO_STEP ELSE -ARPEGGIO_STEP))]]

\* a splice that inserts the items and deletes nothing
SpliceKeeping(s, start, deleteCount, items) ==
  LET from == IF start > Len(s) THEN Len(s) ELSE start
  IN  Slice(s, 0, from) \o items \o Slice(s, from, Len(s))

\* array.splice(start, deleteCount, ...items) for start >= 0
Splice(s, start, deleteCount, items) ==
  LET from == IF start > Len(s) THEN Len(s) ELSE start
      upTo == IF from + deleteCount > Len(s) THEN Len(s) ELSE from + deleteCount
  IN  Slice(s, 0, from) \o items \o Slice(s, upTo, Len(s))

modifiedPoints(effect, segmentPoints) ==
  CASE effect = "smooth" -> smoothLine(segmentPoints)
    [] effect = "stretch" -> stretchLine(segmentPoints, STRETCH_FACTOR)
    [] OTHER -> applyArpeggio(segmentPoints)

\* the stream applyEffect stores for the selected segment
effectResult(effect, points, segment) ==
  Splice(points, segment.startIndex, segment.endIndex - segment.startIndex + 1,
         modifiedPoints(effect, Slice(points, segment.startIndex, segment.endIndex + 1)))

\* the indices whose point object applyEffect replaces by a new one
\* (smoothLine returns the two end points of the segment themselves)
replacedBy(effect, segment) ==
  IF effect = "smooth"
  THEN (segment.startIndex + 1)..(segment.endIndex - 1)
  ELSE segment.startIndex..segment.endIndex

\* ------------------------------------------------------------- sound bank
\* Date.now() in the clock's unit
DateNow == now

\* the pages whose handleGapAdjustment assigns to a point object in place
AssignsInPlace == variant \in {"page", "edit", "basic"}

\* shared: the indices i at which sound.points[i] is still the very object
\* waveformPoints[i] ([...waveformPoints] copies the array, not the points);
\* kept for the pages that assign to point objects
SavedSound(points) ==
  [id |-> DateNow, name |-> currentSoundName, points |-> points,
   waveform |-> selectedWaveform,
   shared |-> IF AssignsInPlace THEN 0..(Len(points) - 1) ELSE {}]

\* the bank after the active stream dropped the point objects at `indices`
unshare(sounds, indices) ==
  [k \in 1..Len(sounds) |-> [sounds[k] EXCEPT !.shared = @ \ indices]]

\* the bank after point.gapDuration = gap was assigned on the object at
\* waveformPoints[index]
assignGapInBank(sounds, index, gap) ==
  [k \in 1..Len(sounds) |->
     IF index \in sounds[k].shared
     THEN [sounds[k] EXCEPT !.points[index + 1].gapDuration = gap]
     ELSE sounds[k]]

bankFullAbove(sounds) == Len(sounds) > MAX_SOUNDS

\* savedSounds.length >= 10
bankFull(sounds) == Len(sounds) >= MAX_SOUNDS

\* a guard that lets a named save of the empty stream through
nameMissing == currentSoundName = ""

\* waveformPoints.length === 0 || !currentSoundName
nothingToSave == Len(waveformPoints) = 0 \/ currentSoundName = ""

saveCurrentSound ==
  IF nothingToSave
  THEN Handled("saveCurrentSound", <<>>) /\ UNCHANGED <<savedSounds, currentSoundName>>
  ELSE IF bankFull(savedSounds)
  THEN /\ lastCall' = [Quiet EXCEPT !.alerted = TRUE]
       /\ UNCHANGED <<savedSounds, currentSoundName>>
  ELSE /\ savedSounds' = Append(savedSounds, SavedSound(waveformPoints))
       /\ currentSoundName' = ""
       /\ Handled("saveCurrentSound", <<>>)

\* ------------------------------------------------------- edit-mode handlers
envVars == <<variant, scale, now, ticks>>
bankVars == <<savedSounds, currentSoundName, selectedWaveform>>

handleCanvasMouseMove(pos) ==
  LET segment == findLineSegment(pos[1], pos[2])
  IN  /\ editingState' =
           IF ~editingState.isEditMode \/ isDrawing THEN editingState
           ELSE IF segment # NoMatch
           THEN [editingState EXCEPT !.hoveredSegment = SegmentRef(segment)]
           ELSE [editingState EXCEPT !.hoveredSegment = NoSegment]
      /\ Handled("handleCanvasMouseMove", <<>>)
      /\ UNCHANGED <<captureVars, selectedGap, savedSounds>>

\* page.tsx handleCanvasClick
handleCanvasClickPage(pos) ==
  LET segment == findLineSegment(pos[1], pos[2])
  IN  /\ editingState' =
           IF ~editingState.isEditMode THEN editingState
           ELSE IF segment # NoMatch
           THEN [editingState EXCEPT !.tooltipPosition = pos,
                                     !.selectedSegment = SegmentRef(segment),
                                     !.selectedLineSettings = TRUE]
           ELSE [editingState EXCEPT !.tooltipPosition = pos]
      /\ Handled("handleCanvasClick", <<>>)
      /\ UNCHANGED <<captureVars, selectedGap, savedSounds>>

\* part_002 handleCanvasClick
handleCanvasClickLayered(pos) ==
  LET segment == findLineSegment(pos[1], pos[2])
  IN  /\ editingState' =
           IF ~editingState.isEditMode \/ selectedGap # Null \/ isDrawing
           THEN editingState
           ELSE IF segment # NoMatch
           THEN [editingState EXCEPT !.tooltipPosition = pos,
                                     !.selectedSegment = SegmentRef(segment),
                                     !.selectedLineSettings = TRUE]
           ELSE editingState
      /\ Handled("handleCanvasClick", <<>>)
      /\ UNCHANGED <<captureVars, selectedGap, savedSounds>>

\* the transform-tooltip page; the tooltip position is the pointer's client
\* position, taken relative to the canvas box
handleLineClick(pos) ==
  LET segment == findLineSegment(pos[1], pos[2])
  IN  /\ editingState' =
           IF ~editingState.isEditMode \/ isDrawing THEN editingState
           ELSE IF segment # NoMatch
           THEN [editingState EXCEPT !.selectedSegment = SegmentRef(segment),
                                     !.tooltipPosition = pos]
           ELSE editingState
      /\ Handled("handleLineClick", <<>>)
      /\ UNCHANGED <<captureVars, selectedGap, savedSounds>>

\* part_003 and the transform-tooltip page: handleCanvasClick selects a gap
handleCanvasClickGap(pos) ==
  LET gapPoint == findIndex({i \in 0..(Len(waveformPoints) - 1) :
                               gapHandleBoxHit(pos[1], pos[2], waveformPoints, i)})
  IN  /\ selectedGap' = IF gapPoint >= 0 THEN gapPoint ELSE Null
      /\ Handled("handleCanvasClick", <<>>)
      /\ UNCHANGED <<captureVars, editingState, savedSounds>>

\* page.tsx and part_002 handleMouseDown
handleMouseDown(pos) ==
  LET coords == getScaledCoordinates(pos)
      gapPoint == findIndex({i \in 0..(Len(waveformPoints) - 1) :
                               gapHandleHit(coords, At(waveformPoints, i))})
      segment == findLineSegment(coords[1], coords[2])
  IN  IF ~editingState.isEditMode
      THEN startDrawing(pos) /\ UNCHANGED <<selectedGap, editingState, savedSounds>>
      ELSE IF gapPoint >= 0
      THEN /\ selectedGap' = gapPoint
           /\ isDrawing' = TRUE
           /\ Handled("handleMouseDown", <<>>)
           /\ UNCHANGED <<waveformPoints, startTime, lastDrawTime, lastLineEndTime,
                          captured, editingState, savedSounds>>
      ELSE /\ editingState' =
                IF segment # NoMatch
                THEN [editingState EXCEPT !.selectedSegment = SegmentRef(segment)]
                ELSE editingState
           /\ Handled("handleMouseDown", <<>>)
           /\ UNCHANGED <<captureVars, selectedGap, savedSounds>>

\* onMouseDown of part_003 and of the transform-tooltip page
onMouseDownInline(pos) ==
  IF selectedGap # Null
  THEN /\ isDrawing' = TRUE
       /\ Handled("onMouseDown", <<>>)
       /\ UNCHANGED <<waveformPoints, startTime, lastDrawTime, lastLineEndTime,
                      captured, selectedGap, editingState, savedSounds>>
  ELSE IF HasEditMode /\ editingState.isEditMode
  THEN handleLineClick(pos)
  ELSE startDrawing(pos) /\ UNCHANGED <<selectedGap, editingState, savedSounds>>

\* ---------------------------------------------------------- gap adjustment
closedTooltip(state) ==
  [state EXCEPT !.tooltipPosition = NoPosition, !.selectedSegment = NoSegment,
                !.selectedLineSettings = FALSE]

\* x - startX without the clamp at 0
dragDistanceSigned(x, startX) == x - startX

dragDistance(x, startX) == IF x - startX > 0 THEN x - startX ELSE 0

\* page.tsx: point.gapDuration = dragDistance / 50, assigned on the point
\* object itself
handleGapAdjustmentPage(pos) ==
  LET coords == getScaledCoordinates(pos)
      guarded == ~editingState.isEditMode \/ selectedGap = Null \/ ~isDrawing
      exists == selectedGap # Null /\ selectedGap < Len(waveformPoints)
      newGapDuration == dragDistance(coords[1], At(waveformPoints, selectedGap).x) * CS_PER_PX
  IN  /\ IF ~guarded /\ exists
         THEN /\ waveformPoints' =
                   [waveformPoints EXCEPT ![selectedGap + 1].gapDuration = newGapDuration]
              /\ savedSounds' = assignGapInBank(savedSounds, selectedGap, newGapDuration)
         ELSE UNCHANGED <<waveformPoints, savedSounds>>
      /\ Handled("handleGapAdjustment", <<>>)
      /\ UNCHANGED <<isDrawing, startTime, lastDrawTime, lastLineEndTime, captured,
                     selectedGap, editingState>>

\* part_002: the point is replaced by a copy with the new gapDuration; the
\* pointer offset is not scaled; waveformPoints[selectedGap].x throws when the
\* point is gone, after the tooltip was closed
layeredGapDuration(distance) ==
  IF distance > MAX_GAP_WIDTH
  THEN ((MAX_GAP_WIDTH * CS_PER_PX) * distance) \div MAX_GAP_WIDTH
  ELSE distance * CS_PER_PX

handleGapAdjustmentLayered(pos) ==
  LET guarded == selectedGap = Null \/ ~isDrawing
      exists == selectedGap # Null /\ selectedGap < Len(waveformPoints)
      newGapDuration ==
        layeredGapDuration(dragDistance(pos[1], At(waveformPoints, selectedGap).x))
  IN  /\ editingState' = IF guarded THEN editingState ELSE closedTooltip(editingState)
      /\ IF ~guarded /\ exists
         THEN /\ waveformPoints' =
                   [waveformPoints EXCEPT ![selectedGap + 1].gapDuration = newGapDuration]
              /\ savedSounds' = unshare(savedSounds, {selectedGap})
         ELSE UNCHANGED <<waveformPoints, savedSounds>>
      /\ lastCall' = [Quiet EXCEPT !.threw = ~guarded /\ ~exists]
      /\ UNCHANGED <<isDrawing, startTime, lastDrawTime, lastLineEndTime, captured,
                     selectedGap>>

\* part_003 and the transform-tooltip page: measured from the previous point,
\* assigned on the point object itself
handleGapAdjustmentGap(pos) ==
  LET guarded == selectedGap = Null \/ ~isDrawing
      exists == /\ selectedGap # Null
                /\ selectedGap < Len(waveformPoints)
                /\ selectedGap >= 1
      newGapDuration ==
        dragDistance(pos[1], At(waveformPoints, selectedGap - 1).x) * CS_PER_PX
  IN  /\ IF ~guarded /\ exists
         THEN /\ waveformPoints' =
                   [waveformPoints EXCEPT ![selectedGap + 1].gapDuration = newGapDuration]
              /\ savedSounds' = assignGapInBank(savedSounds, selectedGap, newGapDuration)
         ELSE UNCHANGED <<waveformPoints, savedSounds>>
      /\ Handled("handleGapAdjustment", <<>>)
      /\ UNCHANGED <<isDrawing, startTime, lastDrawTime, lastLineEndTime, captured,
                     selectedGap, editingState>>

\* ----------------------------------------------------------- pointer events
MouseDown(pos) ==
  /\ IF variant \in {"page", "layered"} THEN handleMouseDown(pos) ELSE onMouseDownInline(pos)
  /\ UNCHANGED <<envVars, timelineVars, currentSoundName, selectedWaveform, edits>>

\* onMouseMove of page.tsx and part_002: nothing runs outside edit mode
\* unless a press is held
onMouseMoveEditing(pos) ==
  IF editingState.isEditMode
  THEN IF selectedGap # Null /\ isDrawing
       THEN (IF variant = "page" THEN handleGapAdjustmentPage(pos)
             ELSE handleGapAdjustmentLayered(pos))
       ELSE handleCanvasMouseMove(pos)
  ELSE /\ isDrawing
       /\ draw(pos)
       /\ UNCHANGED <<selectedGap, editingState, savedSounds>>

\* onMouseMove of part_003 and of the transform-tooltip page
onMouseMoveInline(pos) ==
  IF selectedGap # Null THEN handleGapAdjustmentGap(pos)
  ELSE IF HasEditMode /\ editingState.isEditMode THEN handleCanvasMouseMove(pos)
  ELSE draw(pos) /\ UNCHANGED <<selectedGap, editingState, savedSounds>>

MouseMove(pos) ==
  /\ IF variant \in {"page", "layered"} THEN onMouseMoveEditing(pos) ELSE onMouseMoveInline(pos)
  /\ UNCHANGED <<envVars, timelineVars, currentSoundName, selectedWaveform, edits>>

\* onMouseUp and onMouseLeave (onMouseOut) run the same code
MouseUpOrLeave ==
  /\ stopDrawing
  /\ selectedGap' = IF variant \in {"page", "layered"} THEN Null ELSE selectedGap
  /\ UNCHANGED <<envVars, timelineVars, editingState, bankVars, edits>>

Click(pos) ==
  /\ CASE variant = "page" -> handleCanvasClickPage(pos)
       [] variant = "layered" -> handleCanvasClickLayered(pos)
       [] OTHER -> handleCanvasClickGap(pos)
  /\ UNCHANGED <<envVars, timelineVars, currentSoundName, selectedWaveform, edits>>

\* ------------------------------------------------------ buttons and inputs
ToggleEditMode ==
  /\ HasEditMode
  /\ editingState' = [editingState EXCEPT !.isEditMode = ~@]
  /\ Handled("toggleEditMode", <<>>)
  /\ UNCHANGED <<envVars, timelineVars, captureVars, selectedGap, bankVars, edits>>

\* the settings tooltip of page.tsx and part_002 is rendered while it has a
\* position and settings
handleTooltipClose ==
  /\ variant \in {"page", "layered"}
  /\ editingState.tooltipPosition # NoPosition
  /\ editingState.selectedLineSettings
  /\ editingState' = closedTooltip(editingState)
  /\ Handled("handleTooltipClose", <<>>)
  /\ UNCHANGED <<envVars, timelineVars, captureVars, selectedGap, bankVars, edits>>

ClearDrawing ==
  /\ clearDrawing
  /\ savedSounds' = unshare(savedSounds, 0..(Len(waveformPoints) - 1))
  /\ UNCHANGED <<envVars, timelineVars, selectedGap, editingState, currentSoundName,
                 selectedWaveform,
                 edits>>

\* the transform buttons exist only in the transform tooltip, rendered while
\* a segment is selected and the tooltip has a position; applyArpeggio reads
\* points[0].y and throws on an empty slice
applyEffect(effect) ==
  LET segment == editingState.selectedSegment
      segmentPoints == Slice(waveformPoints, segment.startIndex, segment.endIndex + 1)
      throws == effect = "arpeggio" /\ segmentPoints = <<>>
  IN  /\ ApplyEffectWired
      /\ editingState.tooltipPosition # NoPosition
      /\ segment # NoSegment
      /\ edits < MaxEdits
      /\ edits' = edits + 1
      /\ IF throws
         THEN UNCHANGED <<waveformPoints, savedSounds>>
         ELSE /\ waveformPoints' = effectResult(effect, waveformPoints, segment)
              /\ savedSounds' = unshare(savedSounds, replacedBy(effect, segment))
      /\ lastCall' = [Quiet EXCEPT !.threw = throws]
      /\ UNCHANGED <<envVars, timelineVars, isDrawing, startTime, lastDrawTime, lastLineEndTime,
                     captured, selectedGap, editingState, currentSoundName,
                     selectedWaveform>>

\* the name is read by saveCurrentSound alone
setCurrentSoundName(name) ==
  /\ SaveWired
  /\ name # currentSoundName
  /\ currentSoundName' = name
  /\ Handled("setCurrentSoundName", <<>>)
  /\ UNCHANGED <<envVars, timelineVars, captureVars, selectedGap, editingState, savedSounds,
                 selectedWaveform, edits>>

handleWaveformChange(type) ==
  /\ type # selectedWaveform
  /\ selectedWaveform' = type
  /\ Handled("handleWaveformChange", <<>>)
  /\ UNCHANGED <<envVars, timelineVars, captureVars, selectedGap, editingState, savedSounds,
                 currentSoundName, edits>>

\* the Save button, wherever the page renders one
SaveToBank ==
  /\ SaveWired
  /\ saveCurrentSound
  /\ UNCHANGED <<envVars, timelineVars, captureVars, selectedGap, editingState,
                 selectedWaveform, edits>>

SaveCurrentSound ==
  /\ Len(savedSounds) < MaxSaved
  /\ SaveToBank

\* typing a name, explored while a save still is
SetCurrentSoundName(name) ==
  /\ Len(savedSounds) < MaxSaved
  /\ setCurrentSoundName(name)

\* the outcome of playSound(points) called now
Played(points) ==
  LET outcome == playSound(points, now)
  IN  [Call("playSound", outcome.log) EXCEPT
         !.threw = outcome.threw, !.returned = outcome.returned, !.played = points]

playCurrentDrawing ==
  /\ variant # "basic"
  /\ Len(waveformPoints) # 0
  /\ lastCall' = Played(waveformPoints)
  /\ UNCHANGED <<envVars, timelineVars, captureVars, selectedGap, editingState, bankVars, edits>>

\* savedSounds.find(s => s.id === soundId): the first sound with that id
findSound(soundId) ==
  LET matches == {k \in 1..Len(savedSounds) : savedSounds[k].id = soundId}
  IN  savedSounds[CHOOSE k \in matches : \A j \in matches : k <= j]

playSavedSound(k) ==
  /\ lastCall' = Played(findSound(savedSounds[k].id).points)
  /\ UNCHANGED <<envVars, timelineVars, captureVars, selectedGap, editingState, bankVars, edits>>

\* ---------------------------------------------------------------- timeline
\* the clock value at which the recording below was saved
TimelineStart == LOOK_AHEAD + 150
TimelineEvent(id, soundId, start, duration, track) ==
  [id |-> id, soundId |-> soundId, startTime |-> start, duration |-> duration,
   track |-> track]

\* Math.max(...values) of a non-empty argument list
Max(values) == CHOOSE m \in values : \A v \in values : v <= m

\* events.map(e => e.startTime + e.duration)
eventEnds(events) == {events[k].startTime + events[k].duration : k \in 1..Len(events)}

\* the duration addToTimeline gives the event of `sound`
eventDurationOf(sound) ==
  IF variant = "layered" THEN soundDurationOf(sound.points, Null) ELSE EVENT_DURATION

\* the start time addToTimeline gives a new event
eventStartOf(events) == IF variant = "layered" THEN Max({0} \union eventEnds(events)) ELSE 0

\* an Add to Timeline button that passes the sound's position in the bank
addToTimelineByIndex(k) ==
  LET sound == savedSounds[k]
      newEvent == TimelineEvent(eventCount + 1, k,
                                eventStartOf(timelineEvents), eventDurationOf(sound), 0)
  IN  /\ mounted
      /\ eventCount < MaxEvents
      /\ eventCount' = eventCount + 1
      /\ timelineEvents' = Append(timelineEvents, newEvent)
      /\ lastCall' = Quiet
      /\ UNCHANGED <<envVars, captureVars, selectedGap, editingState, bankVars, edits,
                     draggingEvent, isPlaying, playheadPosition, activeEvents,
                     animationFrameRef, frames, timers, starting, mounted, playCount>>

\* the "Add to Timeline" button of the k-th sound of the bank: addToTimeline(sound.id, 0)
addToTimeline(k) ==
  LET sound == findSound(savedSounds[k].id)
      newEvent == TimelineEvent(eventCount + 1, savedSounds[k].id,
                                eventStartOf(timelineEvents), eventDurationOf(sound), 0)
  IN  /\ mounted
      /\ eventCount < MaxEvents
      /\ eventCount' = eventCount + 1
      /\ timelineEvents' = Append(timelineEvents, newEvent)
      /\ lastCall' = Quiet
      /\ UNCHANGED <<envVars, captureVars, selectedGap, editingState, bankVars, edits,
                     draggingEvent, isPlaying, playheadPosition, activeEvents,
                     animationFrameRef, frames, timers, starting, mounted, playCount>>

\* onDragStart of the k-th event shown on the timeline
handleDragStart(k) ==
  /\ mounted
  /\ draggingEvent' = timelineEvents[k].id
  /\ lastCall' = Quiet
  /\ UNCHANGED <<envVars, captureVars, selectedGap, editingState, bankVars, edits,
                 timelineEvents, isPlaying, playheadPosition, activeEvents,
                 animationFrameRef, frames, timers, starting, mounted, eventCount,
                 playCount>>

\* x / PIXELS_PER_SECOND without the clamp at 0
newStartTimeUnclamped(x) == (x * 100) \div PIXELS_PER_SECOND

\* Math.max(0, x / PIXELS_PER_SECOND), x in pixels, the result in centiseconds
newStartTime(x) == Max({0, (x * 100) \div PIXELS_PER_SECOND})

\* the row a drag ends on: the layered page has the one row
Tracks == IF variant = "layered" THEN {0} ELSE {1}

\* a drag-over that moves every event of the timeline
handleTimelineDragOverAll(x, track) ==
  /\ mounted
  /\ timelineEvents' =
       IF draggingEvent = Null THEN timelineEvents
       ELSE [k \in 1..Len(timelineEvents) |->
               [timelineEvents[k] EXCEPT !.startTime = newStartTime(x), !.track = track]]
  /\ lastCall' = Quiet
  /\ UNCHANGED <<envVars, captureVars, selectedGap, editingState, bankVars, edits,
                 draggingEvent, isPlaying, playheadPosition, activeEvents,
                 animationFrameRef, frames, timers, starting, mounted, eventCount,
                 playCount>>

\* onDragOver at x pixels from the left edge of the row `track`
handleTimelineDragOver(x, track) ==
  /\ mounted
  /\ timelineEvents' =
       IF draggingEvent = Null THEN timelineEvents
       ELSE [k \in 1..Len(timelineEvents) |->
               IF timelineEvents[k].id = draggingEvent
               THEN [timelineEvents[k] EXCEPT !.startTime = newStartTime(x), !.track = track]
               ELSE timelineEvents[k]]
  /\ lastCall' = Quiet
  /\ UNCHANGED <<envVars, captureVars, selectedGap, editingState, bankVars, edits,
                 draggingEvent, isPlaying, playheadPosition, activeEvents,
                 animationFrameRef, frames, timers, starting, mounted, eventCount,
                 playCount>>

handleDragEnd ==
  /\ mounted
  /\ draggingEvent' = Null
  /\ lastCall' = Quiet
  /\ UNCHANGED <<envVars, captureVars, selectedGap, editingState, bankVars, edits,
                 timelineEvents, isPlaying, playheadPosition, activeEvents,
                 animationFrameRef, frames, timers, starting, mounted, eventCount,
                 playCount>>

\* the Clear Timeline button: setTimelineEvents([])
clearTimeline ==
  /\ mounted
  /\ timelineEvents' = <<>>
  /\ lastCall' = Quiet
  /\ UNCHANGED <<envVars, captureVars, selectedGap, editingState, bankVars, edits,
                 draggingEvent, isPlaying, playheadPosition, activeEvents,
                 animationFrameRef, frames, timers, starting, mounted, eventCount,
                 playCount>>

\* the events the playhead loop reports for currentTime
currentActive(events, currentTime) ==
  {events[k].id : k \in {j \in 1..Len(events) :
                           /\ currentTime >= events[j].startTime
                           /\ currentTime <= events[j].startTime + events[j].duration}}

\* requestAnimationFrame(animate) of the loop started at startedAt over `events`
Frame(loop, startedAt, events) == [loop |-> loop, startTime |-> startedAt, events |-> events]

\* cancelAnimationFrame(animationFrameRef.current), guarded by the ref
cancelled == {frame \in frames : frame.loop # animationFrameRef}

\* updatePlayhead(Tone.now()): the first animate() runs at once and requests
\* the next; the state setters of a torn-down component do nothing
updatePlayhead(events) ==
  /\ playCount' = playCount + 1
  /\ playheadPosition' = IF mounted THEN 0 ELSE playheadPosition
  /\ activeEvents' = IF mounted THEN currentActive(events, 0) ELSE activeEvents
  /\ animationFrameRef' = playCount + 1
  /\ frames' = frames \union {Frame(playCount + 1, now, events)}

\* a requested frame runs: animate() of its loop
animate(frame) ==
  /\ frame \in frames
  /\ playheadPosition' = IF mounted THEN now - frame.startTime ELSE playheadPosition
  /\ activeEvents' =
       IF mounted THEN currentActive(frame.events, now - frame.startTime) ELSE activeEvents
  /\ animationFrameRef' = frame.loop
  /\ lastCall' = Quiet
  /\ UNCHANGED <<envVars, captureVars, selectedGap, editingState, bankVars, edits,
                 timelineEvents, draggingEvent, isPlaying, frames, timers, starting,
                 mounted, eventCount, playCount>>

\* the setTimeout callback of playTimeline: setIsPlaying(false), stopPlayhead()
stopTimer(timer) ==
  /\ timer \in timers
  /\ now >= timer.due
  /\ timers' = timers \ {timer}
  /\ isPlaying' = IF mounted THEN FALSE ELSE isPlaying
  /\ frames' = IF animationFrameRef # Null THEN cancelled ELSE frames
  /\ playheadPosition' = IF mounted THEN 0 ELSE playheadPosition
  /\ activeEvents' = IF mounted THEN {} ELSE activeEvents
  /\ lastCall' = Quiet
  /\ UNCHANGED <<envVars, captureVars, selectedGap, editingState, bankVars, edits,
                 timelineEvents, draggingEvent, animationFrameRef, starting, mounted,
                 eventCount, playCount>>

\* the component is torn down: the cleanup of the animation-frame effect
unmount ==
  /\ mounted
  /\ mounted' = FALSE
  /\ frames' = IF animationFrameRef # Null THEN cancelled ELSE frames
  /\ lastCall' = Quiet
  /\ UNCHANGED <<envVars, captureVars, selectedGap, editingState, bankVars, edits,
                 timelineEvents, draggingEvent, isPlaying, playheadPosition, activeEvents,
                 animationFrameRef, timers, starting, eventCount, playCount>>

hasSound(soundId) == \E k \in 1..Len(savedSounds) : savedSounds[k].id = soundId

\* [...timelineEvents].sort((a, b) => a.startTime - b.startTime): stable
RECURSIVE insertByStartTime(_, _)
insertByStartTime(sorted, event) ==
  IF sorted = <<>> THEN <<event>>
  ELSE IF sorted[Len(sorted)].startTime <= event.startTime THEN Append(sorted, event)
  ELSE Append(insertByStartTime(SubSeq(sorted, 1, Len(sorted) - 1), event),
              sorted[Len(sorted)])

RECURSIVE sortedEvents(_)
sortedEvents(events) ==
  IF events = <<>> THEN <<>>
  ELSE insertByStartTime(sortedEvents(SubSeq(events, 1, Len(events) - 1)),
                         events[Len(events)])

\* part_002 playTimeline: what the inner forEach issues for sound.points[index]
timelineCommandsAt(points, eventStartTime, index) ==
  LET point == At(points, index)
      pointTime == eventStartTime + point.time
      mainFreq == frequencyOf(point)
      subFreq == RMul(mainFreq, HALF)
      padFreq == RMul(mainFreq, THREE_HALVES)
  IN  IF point.isNewLine \/ index = 0
      THEN <<Cmd("main", "triggerAttack", pointTime, mainFreq),
             Cmd("sub", "triggerAttack", pointTime + SUB_DELAY, subFreq),
             Cmd("pad", "triggerAttack", pointTime + PAD_DELAY, padFreq)>>
      ELSE <<Cmd("main", "setValueAtTime", pointTime, mainFreq),
             Cmd("sub", "setValueAtTime", pointTime, subFreq),
             Cmd("pad", "setValueAtTime", pointTime, padFreq)>>

RECURSIVE timelineForEach(_, _, _)
timelineForEach(points, eventStartTime, index) ==
  IF index >= Len(points) THEN <<>>
  ELSE timelineCommandsAt(points, eventStartTime, index)
       \o timelineForEach(points, eventStartTime, index + 1)

\* what playTimeline issues for one event when it starts at startedAt
eventCommands(event, startedAt) ==
  LET sound == findSound(event.soundId)
      eventStartTime == startedAt + event.startTime
      releaseTime == eventStartTime + event.duration - TIMELINE_RELEASE_LEAD
  IN  IF ~hasSound(event.soundId) THEN <<>>
      ELSE IF variant = "layered"
      THEN timelineForEach(sound.points, eventStartTime, 0)
           \o <<Cmd("main", "triggerRelease", releaseTime, NoFreq),
                Cmd("sub", "triggerRelease", releaseTime + SUB_DELAY, NoFreq),
                Cmd("pad", "triggerRelease", releaseTime + PAD_DELAY, NoFreq)>>
      ELSE playSound(sound.points, eventStartTime).log

\* a forEach that ends at the first event without its sound
RECURSIVE scheduleEventsUntilMissing(_, _)
scheduleEventsUntilMissing(events, startedAt) ==
  IF events = <<>> \/ ~hasSound(Head(events).soundId) THEN <<>>
  ELSE eventCommands(Head(events), startedAt)
       \o scheduleEventsUntilMissing(Tail(events), startedAt)

\* the forEach over the events, in the order playTimeline visits them
RECURSIVE scheduleEvents(_, _)
scheduleEvents(events, startedAt) ==
  IF events = <<>> THEN <<>>
  ELSE eventCommands(Head(events), startedAt) \o scheduleEvents(Tail(events), startedAt)

\* playTimeline with the stop delay read from the timeline as it is when the
\* call resumes
runTimelineStopFromCurrent(events) ==
  /\ isPlaying' = IF mounted THEN TRUE ELSE isPlaying
  /\ updatePlayhead(events)
  /\ lastCall' = Call("playTimeline",
                      scheduleEvents(IF variant = "layered" THEN sortedEvents(events)
                                     ELSE events, now))
  /\ timers' = timers \union
       {[loop |-> playCount + 1,
         due |-> now + Max({0} \union eventEnds(timelineEvents))]}

\* playTimeline from setIsPlaying(true) to its end, over the timeline
\* `events` of the render that called it
runTimeline(events) ==
  /\ isPlaying' = IF mounted THEN TRUE ELSE isPlaying
  /\ updatePlayhead(events)
  /\ lastCall' = Call("playTimeline",
                      scheduleEvents(IF variant = "layered" THEN sortedEvents(events)
                                     ELSE events, now))
  /\ timers' = timers \union {[loop |-> playCount + 1, due |-> now + Max(eventEnds(events))]}

\* whether the Play Timeline button is enabled
canPlayTimeline == mounted /\ ~isPlaying /\ Len(timelineEvents) # 0

\* the Play Timeline button.  part_002 suspends at await Tone.start() before
\* anything else; the other pages run playTimeline to its end in the click
playTimeline ==
  /\ canPlayTimeline
  /\ playCount + Len(starting) < MaxPlays
  /\ IF variant = "layered"
     THEN /\ starting' = Append(starting, timelineEvents)
          /\ lastCall' = Quiet
          /\ UNCHANGED <<isPlaying, playheadPosition, activeEvents, animationFrameRef,
                         frames, timers, playCount>>
     ELSE runTimeline(timelineEvents) /\ UNCHANGED starting
  /\ UNCHANGED <<envVars, captureVars, selectedGap, editingState, bankVars, edits,
                 timelineEvents, draggingEvent, mounted, eventCount>>

\* a resumed call that sorts the timeline array of its press itself, which
\* is the array of the state while no drag, add or clear has replaced it
resumePlayTimelineSortingInPlace ==
  /\ starting # <<>>
  /\ starting' = Tail(starting)
  /\ runTimeline(Head(starting))
  /\ timelineEvents' =
       IF timelineEvents = Head(starting) THEN sortedEvents(timelineEvents)
       ELSE timelineEvents
  /\ UNCHANGED <<envVars, captureVars, selectedGap, editingState, bankVars, edits,
                 draggingEvent, mounted, eventCount>>

\* the promise of Tone.start() resolves and the oldest suspended call resumes
resumePlayTimeline ==
  /\ starting # <<>>
  /\ starting' = Tail(starting)
  /\ runTimeline(Head(starting))
  /\ UNCHANGED <<envVars, captureVars, selectedGap, editingState, bankVars, edits,
                 timelineEvents, draggingEvent, mounted, eventCount>>

\* the audio clock advances while a playTimeline call, a frame or a timer is
\* pending
Elapse(d) ==
  /\ starting # <<>> \/ frames # {} \/ timers # {}
  /\ now + d <= TimelineStart + MaxElapsed
  /\ now' = now + d
  /\ lastCall' = Quiet
  /\ UNCHANGED <<variant, scale, ticks, captureVars, selectedGap, editingState, bankVars,
                 edits, timelineVars>>

\* ----------------------------------------------------------- specification
Next ==
  \/ \E d \in Deltas : Tick(d)
  \/ \E pos \in Positions : MouseDown(pos)
  \/ \E pos \in Positions : MouseMove(pos)
  \/ MouseUpOrLeave
  \/ \E pos \in Positions : Click(pos)
  \/ ToggleEditMode
  \/ handleTooltipClose
  \/ ClearDrawing
  \/ \E effect \in Effects : applyEffect(effect)
  \/ \E name \in Names : SetCurrentSoundName(name)
  \/ SaveCurrentSound
  \/ playCurrentDrawing
  \/ \E k \in 1..Len(savedSounds) : playSavedSound(k)

Spec == Init /\ [][Next]_vars

\* ------------------------------------------------ the timeline of one sound
DragXs == {100}
TimelineDeltas == {50}

\* a press at the origin at LOOK_AHEAD, a move 0.05 s later and the release,
\* then a second press and release 1.5 s after the first
RecordedStream ==
  <<Point(0, RInt(0), 0, TRUE, 0),
    Point(24, RInt(12), 5, FALSE, 0),
    Point(0, RInt(0), 150, TRUE, 145)>>

\* the page after that recording was named "a" and saved
Recorded ==
  /\ scale = 1
  /\ now = TimelineStart
  /\ ticks = 0
  /\ waveformPoints = RecordedStream
  /\ isDrawing = FALSE
  /\ startTime = LOOK_AHEAD
  /\ lastDrawTime = TimelineStart
  /\ lastLineEndTime = TimelineStart
  /\ selectedGap = Null
  /\ editingState = initialEditingState
  /\ currentSoundName = ""
  /\ selectedWaveform = "sine"
  /\ savedSounds = <<[SavedSound(RecordedStream) EXCEPT !.name = "a"]>>
  /\ lastCall = Quiet
  /\ edits = 0
  /\ captured = 0

TimelineInit ==
  /\ variant \in {"layered", "edit", "basic"}
  /\ TimelineIdle
  /\ Recorded

NextTimeline ==
  \/ \E k \in 1..Len(savedSounds) : addToTimeline(k)
  \/ \E k \in 1..Len(timelineEvents) : handleDragStart(k)
  \/ \E x \in DragXs : \E track \in Tracks : handleTimelineDragOver(x, track)
  \/ handleDragEnd
  \/ clearTimeline
  \/ playTimeline
  \/ resumePlayTimeline
  \/ \E frame \in frames : animate(frame)
  \/ \E timer \in timers : stopTimer(timer)
  \/ unmount
  \/ \E d \in TimelineDeltas : Elapse(d)

SpecTimeline == TimelineInit /\ [][NextTimeline]_vars

\* ------------------------------------------- playTimeline as a function
\* No control of the page takes a sound out of the bank, so the timelines the
\* page builds hold no event without its sound.  Here playTimeline is handed
\* timelines of up to MaxTestLen events, each of the saved sound or of a
\* soundId that no sound of the bank carries.
SoundIds == {TimelineStart, TimelineStart + 1}

RECURSIVE EventLists(_)
EventLists(n) ==
  IF n = 0 THEN {<<>>}
  ELSE UNION {{Append(events, TimelineEvent(n, soundId, start, EVENT_DURATION, 0)) :
                 soundId \in SoundIds, start \in {0, 100}} : events \in EventLists(n - 1)}

ScheduleInit ==
  /\ variant \in {"layered", "edit", "basic"}
  /\ Recorded
  /\ \E n \in 1..MaxTestLen : timelineEvents \in EventLists(n)
  /\ eventCount = Len(timelineEvents)
  /\ draggingEvent = Null
  /\ isPlaying = FALSE
  /\ playheadPosition = 0
  /\ activeEvents = {}
  /\ animationFrameRef = Null
  /\ frames = {}
  /\ timers = {}
  /\ starting = <<>>
  /\ mounted = TRUE
  /\ playCount = 0

NextSchedule ==
  \/ playTimeline
  \/ resumePlayTimeline
  \/ \E frame \in frames : animate(frame)
  \/ \E timer \in timers : stopTimer(timer)
  \/ \E d \in TimelineDeltas : Elapse(d)

SpecSchedule == ScheduleInit /\ [][NextSchedule]_vars

\* ------------------------------------------------ the bank up to its cap
Waveforms == {"sine", "square"}

\* the page after one press at the canvas origin, with the budgets of
\* the bounds untouched
Pressed ==
  /\ TimelineIdle
  /\ scale = 1
  /\ now = LOOK_AHEAD
  /\ ticks = 0
  /\ waveformPoints = <<Point(0, RInt(0), 0, TRUE, 0)>>
  /\ isDrawing = TRUE
  /\ startTime = LOOK_AHEAD
  /\ lastDrawTime = LOOK_AHEAD
  /\ lastLineEndTime = Null
  /\ selectedGap = Null
  /\ editingState = initialEditingState
  /\ savedSounds = <<>>
  /\ currentSoundName = ""
  /\ selectedWaveform = "sine"
  /\ lastCall = Call("startDrawing",
                     <<Cmd("main", "triggerAttack", LOOK_AHEAD,
                           mapToFrequency(RInt(0), CANVAS_HEIGHT))>>)
  /\ edits = 0
  /\ captured = 0

\* the pages that can save, freshly mounted or after one press
BankInit ==
  /\ variant \in {"layered", "edit", "basic"}
  /\ Pressed \/ (scale = 1 /\ Mounted)

NextBank ==
  \/ \E name \in Names : setCurrentSoundName(name)
  \/ \E type \in Waveforms : handleWaveformChange(type)
  \/ SaveToBank

SpecBank == BankInit /\ [][NextBank]_vars

\* ------------------------------------------------- playSound as a function
PlayTimes == {0, 5, 55}
PlayGaps == {0, 5, 50}
PlayYs == {0, 12}

\* the points a stream of the page can hold at index i >= 1 after a point at
\* time `after`; only startDrawing gives a point a gap
PlayPoints(after) ==
  {Point(0, RInt(y), t, TRUE, gap) :
     y \in PlayYs, t \in {u \in PlayTimes : u >= after}, gap \in PlayGaps}
  \cup {Point(0, RInt(y), t, FALSE, 0) :
           y \in PlayYs, t \in {u \in PlayTimes : u >= after}}

FirstPoints == {Point(0, RInt(y), 0, TRUE, gap) : y \in PlayYs, gap \in PlayGaps}

RECURSIVE PlayStreams(_)
PlayStreams(n) ==
  IF n = 0 THEN {<<>>}
  ELSE IF n = 1 THEN {<<p>> : p \in FirstPoints}
  ELSE UNION {{Append(s, p) : p \in PlayPoints(s[Len(s)].time)} : s \in PlayStreams(n - 1)}

PlayInit ==
  /\ variant \in Variants
  /\ scale = 1
  /\ \E n \in 0..MaxTestLen : \E points \in PlayStreams(n) : Holding(points)

\* playSound(waveformPoints), called without the guard of playCurrentDrawing
PlaySoundCall ==
  /\ lastCall' = Played(waveformPoints)
  /\ UNCHANGED <<envVars, timelineVars, captureVars, selectedGap, editingState, bankVars, edits>>

SpecPlay == PlayInit /\ [][PlaySoundCall]_vars

\* -------------------------------------------- findLineSegment as a function
FindPlaces == {<<0, RInt(0)>>, <<24, RInt(12)>>, <<48, <<1, 2>>>>, <<0, RInt(48)>>}
Queries == {<<x, y>> : x \in {0, 12, 24, 36, 60}, y \in {0, 12, 30}}

\* streams of the page by shape: the first point starts a line, times do
\* not decrease
RECURSIVE FindStreams(_)
FindStreams(n) ==
  IF n = 0 THEN {<<>>}
  ELSE IF n = 1 THEN {<<Point(place[1], place[2], 0, TRUE, 0)>> : place \in FindPlaces}
  ELSE UNION {{Append(s, Point(place[1], place[2], 5 * Len(s), newLine, 0)) :
                 place \in FindPlaces, newLine \in BOOLEAN} : s \in FindStreams(n - 1)}

FindInit ==
  /\ variant \in {"page", "layered"}
  /\ scale \in Scales
  /\ \E n \in 0..(MaxTestLen + 1) : \E points \in FindStreams(n) : Holding(points)

\* the pointer hovers over the canvas, in edit mode or not
NextFind ==
  \/ ToggleEditMode
  \/ \E pos \in Queries : MouseMove(pos)

SpecFind == FindInit /\ [][NextFind]_vars

\* ------------------------------------- segment lookup from every handler
ScaleQueries == {<<0, 0>>, <<12, 6>>, <<24, 12>>}

\* a drawn stream on a canvas whose backing store may be twice its box
ScaleInit ==
  /\ variant \in {"page", "layered", "edit"}
  /\ scale \in Scales
  /\ \E n \in 1..2 : \E points \in FindStreams(n) : Holding(points)

NextScale ==
  \/ ToggleEditMode
  \/ \E pos \in ScaleQueries : MouseMove(pos)
  \/ \E pos \in ScaleQueries : MouseDown(pos)
  \/ \E pos \in ScaleQueries : Click(pos)
  \/ MouseUpOrLeave

SpecScale == ScaleInit /\ [][NextScale]_vars

\* ---------------------------------------- the transforms as functions
EffectYs == {0, 12, 25}
Factors == {<<1, 1>>, <<3, 2>>, <<1, 2>>, <<-1, 1>>}

\* streams of the page by shape, a sample every 12 px and 0.05 s
RECURSIVE EffectStreams(_)
EffectStreams(n) ==
  IF n = 0 THEN {<<>>}
  ELSE IF n = 1 THEN {<<Point(0, RInt(y), 0, TRUE, 0)>> : y \in EffectYs}
  ELSE UNION {{Append(s, Point(12 * Len(s), RInt(y), 5 * Len(s), newLine, 0)) :
                 y \in EffectYs, newLine \in BOOLEAN} : s \in EffectStreams(n - 1)}

EffectInit ==
  /\ variant = "edit"
  /\ scale = 1
  /\ \E n \in 0..MaxTestLen : \E points \in EffectStreams(n) : Holding(points)

\* a line is picked in edit mode and a transform button of its tooltip pressed
NextEffect ==
  \/ ToggleEditMode
  \/ \E pos \in Positions : MouseDown(pos)
  \/ \E effect \in Effects : applyEffect(effect)

SpecEffect == EffectInit /\ [][NextEffect]_vars

\* ------------------------------------- capture and editing, one point in
CaptureInit ==
  /\ variant \in Variants
  /\ Pressed

NextCapture ==
  \/ \E d \in Deltas : Tick(d)
  \/ \E pos \in Positions : MouseDown(pos)
  \/ \E pos \in Positions : MouseMove(pos)
  \/ MouseUpOrLeave
  \/ \E pos \in Positions : Click(pos)
  \/ ToggleEditMode
  \/ handleTooltipClose
  \/ ClearDrawing
  \/ \E effect \in Effects : applyEffect(effect)

SpecCapture == CaptureInit /\ [][NextCapture]_vars

\* ================================================================== claims

\* C1: whenever the active point stream is non-empty, its first point is a
\* line start (isNewLine), whatever presses, moves, releases, clears, edit
\* mode toggles, gap-handle drags and transforms came before.
C1_FirstPointStartsLine ==
  waveformPoints # <<>> => waveformPoints[1].isNewLine

\* a three-point stream that went through a transform
C1_Witness ==
  /\ Len(waveformPoints) = 3
  /\ edits = 1
  /\ waveformPoints[1].isNewLine

\* C2: the time values of the active stream never decrease in storage
\* order.
C2_TimesNonDecreasing ==
  \A i, j \in 1..Len(waveformPoints) :
    i < j => waveformPoints[i].time <= waveformPoints[j].time

\* three points at three different times
C2_Witness ==
  /\ Len(waveformPoints) = 3
  /\ waveformPoints[1].time < waveformPoints[2].time
  /\ waveformPoints[2].time < waveformPoints[3].time

\* C3: a play call schedules, for every line-start point with a positive
\* gapDuration g and event time e, a release at e - g and after it an attack
\* at e (two lines drawn 0.5 s apart: release at start2 - 0.5, attack at
\* start2).
C3_GapReleaseThenAttack ==
  (lastCall.op = "playSound" /\ ~lastCall.threw) =>
    \A i \in 1..Len(lastCall.played) :
      LET point == lastCall.played[i]
          e == now + point.time
      IN  (point.isNewLine /\ point.gapDuration > 0) =>
            \E a, b \in 1..Len(lastCall.log) :
              /\ a < b
              /\ lastCall.log[a].voice = "main"
              /\ lastCall.log[a].kind = "triggerRelease"
              /\ lastCall.log[a].time = e - point.gapDuration
              /\ lastCall.log[b].voice = "main"
              /\ lastCall.log[b].kind = "triggerAttack"
              /\ lastCall.log[b].time = e

\* C4: within one play call the commands sent to one voice (main, sub, pad)
\* carry timestamps that never decrease in issue order.
C4_VoiceTimesNonDecreasing ==
  lastCall.op = "playSound" =>
    \A a, b \in 1..Len(lastCall.log) :
      (a < b /\ lastCall.log[a].voice = lastCall.log[b].voice) =>
        lastCall.log[a].time <= lastCall.log[b].time

\* C5: playSound on the empty stream issues no command, raises no error and
\* returns a duration of zero.
C5_EmptyPlayIsNoOp ==
  (lastCall.op = "playSound" /\ lastCall.played = <<>>) =>
    /\ lastCall.log = <<>>
    /\ ~lastCall.threw
    /\ lastCall.returned = 0

\* C6: when the only line start of the played stream of N >= 1 points is its
\* first point, every voice of the page gets exactly one attack, exactly N - 1
\* frequency ramps and at least one release stamped strictly later than the
\* event time of the last point.
C6_SingleLineCommands ==
  LET played == lastCall.played
      log == lastCall.log
      N == Len(played)
      voices == IF variant = "layered" THEN {"main", "sub", "pad"} ELSE {"main"}
      ramps == {"setValueAtTime", "linearRampToValueAtTime"}
  IN  (/\ lastCall.op = "playSound"
       /\ N >= 1
       /\ \A i \in 1..N : played[i].isNewLine <=> i = 1) =>
        \A voice \in voices :
          /\ Cardinality({a \in 1..Len(log) :
                            log[a].voice = voice /\ log[a].kind = "triggerAttack"}) = 1
          /\ Cardinality({a \in 1..Len(log) :
                            log[a].voice = voice /\ log[a].kind \in ramps}) = N - 1
          /\ \E a \in 1..Len(log) :
               /\ log[a].voice = voice
               /\ log[a].kind = "triggerRelease"
               /\ log[a].time > now + played[N].time

C6_Witness ==
  /\ lastCall.op = "playSound"
  /\ Len(lastCall.played) = 3
  /\ \A i \in 1..3 : lastCall.played[i].isNewLine <=> i = 1
  /\ lastCall.played[3].time > 0
  /\ Len(lastCall.log) >= 4

\* C7: the bank never holds more than 10 sounds; from a bank of 10 every step
\* leaves the bank value-for-value as it was, and a save attempted then (a
\* stream drawn, a name typed) is rejected with the alert.
C7_BankCapped ==
  /\ [](Len(savedSounds) <= MAX_SOUNDS)
  /\ [][Len(savedSounds) = MAX_SOUNDS =>
          /\ savedSounds' = savedSounds
          /\ (SaveToBank /\ currentSoundName # "") => lastCall'.alerted]_vars

C7_Witness ==
  /\ Len(savedSounds) = MAX_SOUNDS
  /\ currentSoundName # ""
  /\ lastCall.alerted

\* C8: once a sound is saved, no step of the page changes any field of any
\* point of its stored stream.
C8_SnapshotIndependent ==
  [][\A k \in 1..Len(savedSounds) :
       k <= Len(savedSounds') => savedSounds'[k].points = savedSounds[k].points]_vars

\* C9: a segment that findLineSegment returns for the current stream has
\* startIndex <= endIndex, both inside the stream, points equal to the stream
\* from startIndex to endIndex inclusive, and is one whole run: it begins at
\* a line start, holds no other line start, and ends at the last point or just
\* before the next line start.
C9_SegmentIsOneRun ==
  \A q \in Queries :
    LET segment == findLineSegment(q[1], q[2])
        first == segment.startIndex
        last == segment.endIndex
        n == Len(waveformPoints)
    IN  segment # NoMatch =>
          /\ 0 <= first /\ first <= last /\ last <= n - 1
          /\ Len(segment.points) = last - first + 1
          /\ \A k \in 1..Len(segment.points) : segment.points[k] = waveformPoints[first + k]
          /\ waveformPoints[first + 1].isNewLine
          /\ \A k \in (first + 2)..(last + 1) : ~waveformPoints[k].isNewLine
          /\ last = n - 1 \/ waveformPoints[last + 2].isNewLine

C9_Witness ==
  /\ editingState.hoveredSegment # NoSegment
  /\ editingState.hoveredSegment.startIndex > 0
  /\ editingState.hoveredSegment.endIndex > editingState.hoveredSegment.startIndex
  /\ editingState.hoveredSegment.endIndex < Len(waveformPoints) - 1

\* C10: with the query rescaled to canvas pixels and the distance to a piece
\* taken to the closest point of the piece (clamped to its end points),
\* findLineSegment returns no match when every piece of every run is 15 px or
\* more away, and a run it returns has a piece closer than 15 px.
C10_NearnessDecidesMatch ==
  \A q \in Queries :
    LET segment == findLineSegment(q[1], q[2])
        \* the piece from waveformPoints[i] to waveformPoints[i + 1], in
        \* coordinates multiplied by the product K of the two denominators
        Near(i) ==
          LET p1 == waveformPoints[i]
              p2 == waveformPoints[i + 1]
              K == p1.y[2] * p2.y[2]
              ax == (q[1] * scale - p1.x) * K
              ay == q[2] * scale * K - p1.y[1] * p2.y[2]
              bx == (q[1] * scale - p2.x) * K
              by == q[2] * scale * K - p2.y[1] * p1.y[2]
              cx == (p2.x - p1.x) * K
              cy == p2.y[1] * p1.y[2] - p1.y[1] * p2.y[2]
              along == ax * cx + ay * cy
              len == cx * cx + cy * cy
              R2 == 15 * 15 * K * K
          IN  IF along <= 0 THEN ax * ax + ay * ay < R2
              ELSE IF along >= len THEN bx * bx + by * by < R2
              ELSE SqLess(ax * cy - ay * cx, R2 * len)
        pieces == {i \in 1..(Len(waveformPoints) - 1) : ~waveformPoints[i + 1].isNewLine}
    IN  /\ (\A i \in pieces : ~Near(i)) => segment = NoMatch
        /\ segment # NoMatch =>
             \E i \in pieces :
               /\ segment.startIndex + 1 <= i
               /\ i <= segment.endIndex
               /\ Near(i)

C10_Witness ==
  /\ editingState.hoveredSegment # NoSegment
  /\ \E i \in 1..(Len(waveformPoints) - 1) : ~waveformPoints[i + 1].isNewLine
  /\ \E q \in Queries : findLineSegment(q[1], q[2]) = NoMatch
  /\ scale = 2

\* C11: smoothLine maps a segment of n points to n points; each interior
\* point's y is the mean of the original y of itself and its two neighbours,
\* the first and last points are unchanged, x, time, isNewLine and gapDuration
\* of every point are unchanged; smoothing twice keeps the count and both end
\* points.  Stated for every contiguous segment of the stream.
C11_SmoothIsNeighbourMean ==
  \A a, b \in 1..Len(waveformPoints) :
    a <= b =>
      LET segment == [k \in 1..(b - a + 1) |-> waveformPoints[a + k - 1]]
          n == Len(segment)
          out == smoothLine(segment)
          twice == smoothLine(out)
      IN  /\ Len(out) = n
          /\ out[1] = segment[1]
          /\ out[n] = segment[n]
          /\ \A k \in 1..n :
               /\ out[k].x = segment[k].x
               /\ out[k].time = segment[k].time
               /\ out[k].isNewLine = segment[k].isNewLine
               /\ out[k].gapDuration = segment[k].gapDuration
          /\ \A k \in 2..(n - 1) :
               LET p == segment[k - 1].y
                   q == segment[k].y
                   r == segment[k + 1].y
                   y == out[k].y
               IN  3 * y[1] * p[2] * q[2] * r[2] =
                     y[2] * (p[1] * q[2] * r[2] + q[1] * p[2] * r[2] + r[1] * p[2] * q[2])
          /\ Len(twice) = n
          /\ twice[1] = segment[1]
          /\ twice[n] = segment[n]

C11_Witness ==
  LET segment == editingState.selectedSegment
  IN  /\ edits >= 1
      /\ segment # NoSegment
      /\ segment.endIndex - segment.startIndex >= 2
      /\ waveformPoints[segment.startIndex + 2].y[2] = 3
      /\ waveformPoints[segment.startIndex + 1].y[2] = 1
      /\ waveformPoints[segment.endIndex + 1].y[2] = 1

\* C12: stretchLine(factor) maps each point's y to mean + (y - mean) * factor
\* with mean the segment's mean y; factor 1 leaves every y as it is; any
\* factor leaves the point count, x, time and the segment's mean y unchanged.
\* Stated for every contiguous segment of the stream and every factor tried.
C12_StretchAroundMean ==
  \A a, b \in 1..Len(waveformPoints) :
    a <= b =>
      LET segment == [k \in 1..(b - a + 1) |-> waveformPoints[a + k - 1]]
          n == Len(segment)
          S == SumY(segment)
      IN  \A f \in Factors :
            LET out == stretchLine(segment, f)
            IN  /\ Len(out) = n
                /\ \A k \in 1..n :
                     LET y == segment[k].y
                         o == out[k].y
                     IN  /\ out[k].x = segment[k].x
                         /\ out[k].time = segment[k].time
                         \* o = S/n + (y - S/n) * f, cleared of denominators
                         /\ o[1] * S[2] * n * y[2] * f[2] =
                              o[2] * (S[1] * y[2] * f[2]
                                      + (y[1] * S[2] * n - S[1] * y[2]) * f[1])
                         /\ f = <<1, 1>> => o = y
                /\ SumY(out) = S

C12_Witness ==
  LET segment == editingState.selectedSegment
  IN  /\ edits >= 1
      /\ segment # NoSegment
      /\ segment.endIndex - segment.startIndex = 1
      /\ waveformPoints[segment.startIndex + 1].y = <<-3, 1>>
      /\ waveformPoints[segment.endIndex + 1].y = <<15, 1>>

\* C13: at every tick of the playhead loop of a mounted page, the events
\* reported active are exactly those of the playing timeline whose half-open
\* interval [startTime, startTime + duration) holds the playhead time.
C13_ActiveIsHalfOpen ==
  [][\A frame \in frames :
       (mounted /\ animate(frame)) =>
         activeEvents' =
           {frame.events[k].id : k \in {j \in 1..Len(frame.events) :
              /\ frame.events[j].startTime <= playheadPosition'
              /\ playheadPosition' < frame.events[j].startTime + frame.events[j].duration}}]_vars

\* C14: every start of the playhead loop is matched by a cancel.  The step
\* of the stop timer on a mounted page leaves no frame requested, the
\* playhead at 0 and no event active; the teardown leaves no frame requested;
\* and a frame is requested anew only by a start of the loop.
C14_StopCancelsLoop ==
  [][/\ (mounted /\ \E timer \in timers : stopTimer(timer)) =>
          /\ frames' = {}
          /\ playheadPosition' = 0
          /\ activeEvents' = {}
     /\ unmount => frames' = {}
     /\ (frames' \subseteq frames) \/ playCount' = playCount + 1]_vars

\* C15: playTimeline issues nothing for an event whose soundId matches no
\* sound of the bank and does not throw, and it issues for every other event
\* of the timeline, in the order it visits them, the commands of that event.
C15_UnknownSoundSkipped ==
  lastCall.op = "playTimeline" =>
    \A frame \in frames :
      frame.loop = playCount =>
        LET events == IF variant = "layered" THEN sortedEvents(frame.events)
                      ELSE frame.events
            expected[k \in 0..Len(events)] ==
              IF k = 0 THEN <<>>
              ELSE expected[k - 1]
                   \o (IF \E j \in 1..Len(savedSounds) :
                            savedSounds[j].id = events[k].soundId
                       THEN eventCommands(events[k], frame.startTime)
                       ELSE <<>>)
        IN  /\ ~lastCall.threw
            /\ lastCall.log = expected[Len(events)]

\* playTimeline ran over an event without its sound followed by one of the
\* saved sound
C15_Witness ==
  /\ lastCall.op = "playTimeline"
  /\ lastCall.log # <<>>
  /\ \E frame \in frames :
       /\ frame.loop = playCount
       /\ Len(frame.events) >= 2
       /\ frame.events[1].soundId = TimelineStart + 1
       /\ frame.events[1].startTime = 0
       /\ frame.events[2].soundId = TimelineStart

\* C16: a save attempted with an empty name or an empty stream is rejected:
\* the step adds no sound, does not throw, and leaves the bank, the active
\* stream and the pending name as they were.
C16_EmptySaveRejected ==
  [][(SaveToBank /\ (currentSoundName = "" \/ waveformPoints = <<>>)) =>
       /\ savedSounds' = savedSounds
       /\ waveformPoints' = waveformPoints
       /\ currentSoundName' = currentSoundName
       /\ ~lastCall'.threw]_vars

\* a name is typed while the active stream is empty
C16_Witness ==
  /\ SaveWired
  /\ waveformPoints = <<>>
  /\ currentSoundName # ""
  /\ savedSounds = <<>>

\* C17: the ids of the bank are strictly increasing in the order of the
\* saves, hence unique, whenever the clock never runs backwards.
C17_IdsStrictlyIncrease ==
  \A j, k \in 1..Len(savedSounds) : j < k => savedSounds[j].id < savedSounds[k].id

\* C18: within one playTimeline call the commands sent to one voice carry
\* timestamps that never decrease in issue order, whatever events the
\* timeline holds.
C18_TimelineVoiceTimesNonDecreasing ==
  lastCall.op = "playTimeline" =>
    \A a, b \in 1..Len(lastCall.log) :
      (a < b /\ lastCall.log[a].voice = lastCall.log[b].voice) =>
        lastCall.log[a].time <= lastCall.log[b].time

\* C19: a pointer-move while capturing appends one point.  If more than
\* 0.1 s passed since the previous sample the point starts a line and the
\* synth gets a release at now followed by an attack of the new frequency at
\* now, and nothing else; otherwise the point starts no line and the synth
\* gets one frequency change to the new frequency at now, and nothing else.
C19_MoveCommands ==
  [][\A pos \in Positions :
       (isDrawing /\ ~Falsy(lastDrawTime) /\ draw(pos)) =>
         LET point == waveformPoints'[Len(waveformPoints')]
             newFrequency == mapToFrequency(point.y, CANVAS_HEIGHT)
         IN  /\ Len(waveformPoints') = Len(waveformPoints) + 1
             /\ IF now - lastDrawTime > NEW_LINE_THRESHOLD
                THEN /\ point.isNewLine
                     /\ lastCall'.log =
                          <<Cmd("main", "triggerRelease", now, NoFreq),
                            Cmd("main", "triggerAttack", now, newFrequency)>>
                ELSE /\ ~point.isNewLine
                     /\ lastCall'.log =
                          <<Cmd("main", "setValueAtTime", now, newFrequency)>>]_vars

\* a move exactly 0.1 s after the previous sample changed the frequency of
\* the sounding note
C19_Witness ==
  /\ lastCall.op = "draw"
  /\ Len(waveformPoints) >= 2
  /\ waveformPoints[Len(waveformPoints)].time
       - waveformPoints[Len(waveformPoints) - 1].time = NEW_LINE_THRESHOLD
  /\ lastCall.log[1].kind = "setValueAtTime"

\* C20: the point a pointer-down appends carries gapDuration 0 when it opens
\* the first line of its stream (the stream was empty, as after
\* clear-drawing), and otherwise the time from the end of the previous line
\* to this pointer-down.
C20_GapIsPauseBeforeLine ==
  [][\A pos \in Positions :
       startDrawing(pos) =>
         LET point == waveformPoints'[Len(waveformPoints')]
         IN  IF waveformPoints = <<>>
             THEN point.gapDuration = 0
             ELSE ~Falsy(lastLineEndTime) =>
                    point.gapDuration = now - lastLineEndTime]_vars

\* C21: every handler that looks a segment up (hover, click, pointer-down in
\* edit mode) compares the stream with the pointer's offset in the canvas
\* box scaled once by backing size over box size: the segment it stores is
\* the one found at (x * scale, y * scale).
C21_QueryScaledOnce ==
  [][\A pos \in ScaleQueries :
       LET once == findLineSegmentFrom(waveformPoints, pos[1] * scale, pos[2] * scale,
                                       0, <<>>, 0)
           found == once # NoMatch
       IN  /\ (editingState.isEditMode /\ ~isDrawing /\ handleCanvasMouseMove(pos)) =>
                 editingState'.hoveredSegment =
                   IF found THEN SegmentRef(once) ELSE NoSegment
           /\ (editingState.isEditMode /\ ~isDrawing /\ selectedGap = Null
               /\ variant \in {"page", "layered"} /\ Click(pos)) =>
                 (found => editingState'.selectedSegment = SegmentRef(once))
           /\ (editingState.isEditMode /\ selectedGap' = selectedGap
               /\ variant \in {"page", "layered"} /\ handleMouseDown(pos)) =>
                 editingState'.selectedSegment =
                   IF found THEN SegmentRef(once) ELSE editingState.selectedSegment
           /\ (editingState.isEditMode /\ ~isDrawing /\ variant = "edit"
               /\ handleLineClick(pos)) =>
                 editingState'.selectedSegment =
                   IF found THEN SegmentRef(once) ELSE editingState.selectedSegment]_vars

\* C22: when the query is within 15 px of more than one run of the stream,
\* findLineSegment returns the near run that starts first; it returns a
\* match whenever some run is near.
C22_FirstNearRunWins ==
  \A q \in Queries :
    LET segment == findLineSegment(q[1], q[2])
        n == Len(waveformPoints)
        \* the runs of the stream: first and last index (from 0) of each
        runs == {r \in (0..(n - 1)) \X (0..(n - 1)) :
                   /\ r[1] <= r[2]
                   /\ r[1] = 0 \/ waveformPoints[r[1] + 1].isNewLine
                   /\ \A k \in (r[1] + 2)..(r[2] + 1) : ~waveformPoints[k].isNewLine
                   /\ r[2] = n - 1 \/ waveformPoints[r[2] + 2].isNewLine}
        near == {r \in runs :
                   isClickNearLine(q[1] * scale, q[2] * scale,
                                   [k \in 1..(r[2] - r[1] + 1) |-> waveformPoints[r[1] + k]])}
    IN  near # {} =>
          /\ segment # NoMatch
          /\ <<segment.startIndex, segment.endIndex>> \in near
          /\ \A r \in near : segment.startIndex <= r[1]

\* the pointer hovers where two runs of the stream are near, and the first
\* of them is the hovered segment
C22_Witness ==
  /\ editingState.hoveredSegment # NoSegment
  /\ editingState.hoveredSegment.startIndex = 0
  /\ \E q \in Queries :
       /\ findLineSegment(q[1], q[2]).startIndex = 0
       /\ \E a \in 2..(Len(waveformPoints) - 1) :
            /\ waveformPoints[a].isNewLine
            /\ findLineSegmentFrom(waveformPoints, q[1] * scale, q[2] * scale,
                                   a - 1, <<>>, a - 1) # NoMatch

\* C23: applyArpeggio maps the point at index i of the segment (from 0) to
\* y0 + 30 when i is even and y0 - 30 when i is odd, y0 the first point's y
\* before the transform; x, time and the point count are unchanged.  Stated
\* for every contiguous segment of the stream.
C23_ArpeggioAlternates ==
  \A a, b \in 1..Len(waveformPoints) :
    a <= b =>
      LET segment == [k \in 1..(b - a + 1) |-> waveformPoints[a + k - 1]]
          out == applyArpeggio(segment)
          y0 == segment[1].y
      IN  /\ Len(out) = Len(segment)
          /\ \A k \in 1..Len(segment) :
               LET i == k - 1
                   o == out[k].y
                   step == IF i % 2 = 0 THEN 30 ELSE -30
               IN  /\ out[k].x = segment[k].x
                   /\ out[k].time = segment[k].time
                   \* o = y0 + step, cleared of denominators
                   /\ o[1] * y0[2] = o[2] * (y0[1] + step * y0[2])

\* the arpeggio was applied to a selected segment of three points whose
\* first y was 12
C23_Witness ==
  LET segment == editingState.selectedSegment
  IN  /\ edits >= 1
      /\ segment # NoSegment
      /\ segment.endIndex - segment.startIndex = 2
      /\ waveformPoints[segment.startIndex + 1].y = <<42, 1>>
      /\ waveformPoints[segment.startIndex + 2].y = <<-18, 1>>
      /\ waveformPoints[segment.startIndex + 3].y = <<42, 1>>

\* C24: applying smooth, stretch or arpeggio to the selected segment leaves
\* the stream's length as it was, every point outside startIndex..endIndex
\* identical, every point's time unchanged, and issues no synth command.
C24_EffectReplacesSegmentOnly ==
  [][\A effect \in Effects :
       applyEffect(effect) =>
         LET segment == editingState.selectedSegment
         IN  /\ Len(waveformPoints') = Len(waveformPoints)
             /\ \A k \in 1..Len(waveformPoints) :
                  /\ waveformPoints'[k].time = waveformPoints[k].time
                  /\ (k - 1 < segment.startIndex \/ k - 1 > segment.endIndex) =>
                       waveformPoints'[k] = waveformPoints[k]
             /\ lastCall'.log = <<>>]_vars

\* a transform was applied to a segment that has a point of another run
\* before it
C24_Witness ==
  /\ edits >= 1
  /\ editingState.selectedSegment # NoSegment
  /\ editingState.selectedSegment.startIndex > 0
  /\ editingState.selectedSegment.endIndex = Len(waveformPoints) - 1

\* C25: while edit mode is off no segment is hovered, no segment is selected
\* and no gap handle is selected; and the step of a committed transform
\* leaves none of them set.
C25_SelectionOnlyInEditMode ==
  /\ [](~editingState.isEditMode =>
          /\ editingState.hoveredSegment = NoSegment
          /\ editingState.selectedSegment = NoSegment
          /\ selectedGap = Null)
  /\ [][(\E effect \in Effects : applyEffect(effect)) =>
          /\ editingState'.hoveredSegment = NoSegment
          /\ editingState'.selectedSegment = NoSegment
          /\ selectedGap' = Null]_vars

\* C26: whenever a segment is selected, its startIndex..endIndex lie within
\* the current stream and delimit exactly one run of it (the first point
\* starts a line, no later point of the range does, and the range ends at the
\* end of the stream or just before the next line start).
C26_SelectionMatchesStream ==
  LET first == editingState.selectedSegment.startIndex
      last == editingState.selectedSegment.endIndex
      n == Len(waveformPoints)
  IN  editingState.selectedSegment # NoSegment =>
        /\ 0 <= first /\ first <= last /\ last <= n - 1
        /\ waveformPoints[first + 1].isNewLine
        /\ \A k \in (first + 2)..(last + 1) : ~waveformPoints[k].isNewLine
        /\ last = n - 1 \/ waveformPoints[last + 2].isNewLine

\* C27: the stop of a timeline playback is set from the timeline of the press
\* of Play: the timer a playTimeline call sets is due max(startTime +
\* duration) over the events of that press after the clock value at which the
\* call started its playhead, a step that changes the timeline (drag, add,
\* clear) leaves every pending timer as it is, and a timer goes only by
\* firing, at or after its due time, which ends the playing state.
C27_StopFixedAtPlay ==
  [][LET pressed == IF variant = "layered" THEN Head(starting) ELSE timelineEvents
     IN  /\ Len(starting') > Len(starting) =>
              starting' = Append(starting, timelineEvents)
         /\ \A timer \in timers' \ timers :
              timer.due = now + Max(eventEnds(pressed))
         /\ timelineEvents' # timelineEvents => timers' = timers
         /\ \A timer \in timers \ timers' :
              /\ now >= timer.due
              /\ mounted => ~isPlaying' /\ playheadPosition' = 0
    ]_vars

\* a stop is due while the timeline is no longer the one Play was pressed on
C27_Witness ==
  \E timer \in timers : \E frame \in frames :
    /\ frame.loop = timer.loop
    /\ frame.events # timelineEvents
    /\ timer.due = frame.startTime + Max(eventEnds(frame.events))
    /\ now >= timer.due
    /\ isPlaying

\* C28: a drag-over changes only the startTime and the track of the dragged
\* event: every event keeps its id, soundId and duration, every other event
\* is unchanged, the Sound Bank is unchanged, no synth command is issued and
\* the pending frames and timers of a playback are left as they are.
C28_DragMovesOneEvent ==
  [][\A x \in DragXs : \A track \in Tracks :
       handleTimelineDragOver(x, track) =>
         /\ Len(timelineEvents') = Len(timelineEvents)
         /\ \A k \in 1..Len(timelineEvents) :
              LET old == timelineEvents[k]
                  new == timelineEvents'[k]
              IN  /\ new.id = old.id
                  /\ new.soundId = old.soundId
                  /\ new.duration = old.duration
                  /\ old.id # draggingEvent => new = old
                  /\ old.id = draggingEvent =>
                       new.startTime = newStartTime(x) /\ new.track = track
         /\ savedSounds' = savedSounds
         /\ lastCall'.log = <<>>
         /\ frames' = frames /\ timers' = timers /\ isPlaying' = isPlaying
    ]_vars

\* one of two events was dragged to 1 s while the timeline was playing
C28_Witness ==
  /\ isPlaying
  /\ draggingEvent # Null
  /\ Len(timelineEvents) = 2
  /\ \E k \in 1..2 :
       /\ timelineEvents[k].id = draggingEvent
       /\ timelineEvents[k].startTime = newStartTime(100)
       /\ timelineEvents[3 - k].startTime # newStartTime(100)
  /\ \E frame \in frames : Len(frame.events) = 2 /\ frame.events # timelineEvents

\* the rows an event can lie on: the one row of the layered page, the three
\* rows of the others
TrackRows == IF variant = "layered" THEN {0} ELSE {0, 1, 2}

\* ------------------------------------------- arranging events, nothing played
\* clientX - rect.left of a drag-over: 1 s into the row, and one pixel left of
\* the edge of the timeline's box
ArrangeXs == {-1, 100}

NextArrange ==
  \/ \E k \in 1..Len(savedSounds) : addToTimeline(k)
  \/ \E k \in 1..Len(timelineEvents) : handleDragStart(k)
  \/ \E x \in ArrangeXs : \E track \in TrackRows : handleTimelineDragOver(x, track)
  \/ handleDragEnd
  \/ clearTimeline

SpecArrange == TimelineInit /\ [][NextArrange]_vars

\* C29: after any sequence of add-to-timeline, drag and clear-timeline
\* operations every timeline event has startTime >= 0, duration > 0 and a
\* track among the rows of the page.
C29_EventsWellFormed ==
  \A k \in 1..Len(timelineEvents) :
    /\ timelineEvents[k].startTime >= 0
    /\ timelineEvents[k].duration > 0
    /\ timelineEvents[k].track \in TrackRows

\* an event was dragged from left of the timeline's edge and lies at 0, next
\* to an event that was dragged to 1 s
C29_Witness ==
  /\ lastCall = Quiet
  /\ draggingEvent # Null
  /\ Len(timelineEvents) = 2
  /\ \E k \in 1..2 :
       /\ timelineEvents[k].id = draggingEvent
       /\ timelineEvents[k].startTime = newStartTime(-1)
       /\ timelineEvents[3 - k].startTime = newStartTime(100)
       /\ timelineEvents[3 - k].track = 2

\* ------------------------------------------ capture and gap-handle drags only
\* presses, moves and releases with the clock advancing between them, the
\* click that picks a gap handle and the edit-mode button that makes the
\* handles of page.tsx and part_002 live
NextGap ==
  \/ \E d \in Deltas : Tick(d)
  \/ \E pos \in Positions : MouseDown(pos)
  \/ \E pos \in Positions : MouseMove(pos)
  \/ MouseUpOrLeave
  \/ \E pos \in Positions : Click(pos)
  \/ ToggleEditMode

SpecGap == CaptureInit /\ [][NextGap]_vars

\* C30: after any sequence of capture and gap-handle drag operations every
\* point of the stream has gapDuration >= 0, and a point with a positive
\* gapDuration starts a line.
C30_GapsOnLineStarts ==
  \A k \in 1..Len(waveformPoints) :
    /\ waveformPoints[k].gapDuration >= 0
    /\ waveformPoints[k].gapDuration > 0 => waveformPoints[k].isNewLine

\* the handle of a line start is held after it was dragged 24 px, which sets
\* a gap of 0.48 s that no pause of the capture produces
C30_Witness ==
  /\ selectedGap # Null
  /\ selectedGap < Len(waveformPoints)
  /\ isDrawing
  /\ waveformPoints[selectedGap + 1].isNewLine
  /\ waveformPoints[selectedGap + 1].gapDuration = 24 * CS_PER_PX

\* ------------------------------------------- a growing bank and its timeline
\* the recorded page with a second sound still to be saved: the clock
\* advances, a name is typed, the stream is saved again, sounds are put on
\* the timeline and the timeline is played
NextLibrary ==
  \/ \E d \in Deltas : Tick(d)
  \/ \E name \in Names : setCurrentSoundName(name)
  \/ Len(savedSounds) <= MaxSaved /\ SaveToBank
  \/ \E k \in 1..Len(savedSounds) : addToTimeline(k)
  \/ clearTimeline
  \/ playTimeline
  \/ resumePlayTimeline

SpecLibrary == TimelineInit /\ [][NextLibrary]_vars

\* C31: every timeline event, on the timeline or in a playTimeline call in
\* progress, carries the id of a sound of the bank, and no step takes a sound
\* out of the bank or changes the id of one.
C31_EventsReferToBank ==
  /\ [](/\ \A k \in 1..Len(timelineEvents) : hasSound(timelineEvents[k].soundId)
        /\ \A i \in 1..Len(starting) : \A k \in 1..Len(starting[i]) :
             hasSound(starting[i][k].soundId)
        /\ \A frame \in frames : \A k \in 1..Len(frame.events) :
             hasSound(frame.events[k].soundId))
  /\ [][/\ Len(savedSounds') >= Len(savedSounds)
        /\ \A k \in 1..Len(savedSounds) : savedSounds'[k].id = savedSounds[k].id]_vars

\* the timeline was played with an event of the second sound of the bank
C31_Witness ==
  /\ lastCall.op = "playTimeline"
  /\ Len(savedSounds) = 2
  /\ savedSounds[2].id # savedSounds[1].id
  /\ \E frame \in frames : \E k \in 1..Len(frame.events) :
       /\ frame.loop = playCount
       /\ frame.events[k].soundId = savedSounds[2].id

\* C32: at most one playhead loop has a frame requested at any time, also
\* when Play Timeline is pressed again before the first call has set
\* isPlaying, and the step of the automatic stop leaves no frame requested.
C32_OnePlayheadLoop ==
  /\ [](Cardinality(frames) <= 1)
  /\ [][(\E timer \in timers : stopTimer(timer)) => frames' = {}]_vars

\* --------------------------------------------- playing what was arranged
\* the recorded page: sounds are put on the timeline and dragged, and the
\* drawing, a saved sound or the timeline is played
NextReplay ==
  \/ \E k \in 1..Len(savedSounds) : addToTimeline(k)
  \/ \E k \in 1..Len(timelineEvents) : handleDragStart(k)
  \/ \E x \in ArrangeXs : \E track \in Tracks : handleTimelineDragOver(x, track)
  \/ playCurrentDrawing
  \/ \E k \in 1..Len(savedSounds) : playSavedSound(k)
  \/ playTimeline
  \/ resumePlayTimeline

SpecReplay == TimelineInit /\ [][NextReplay]_vars

\* C33: playing the current drawing, a saved sound or the timeline leaves the
\* active stream, every saved sound and the timeline events as they were,
\* order included.
C33_PlayLeavesStreams ==
  [][(\/ playCurrentDrawing
      \/ \E k \in 1..Len(savedSounds) : playSavedSound(k)
      \/ playTimeline
      \/ resumePlayTimeline) =>
       /\ waveformPoints' = waveformPoints
       /\ savedSounds' = savedSounds
       /\ timelineEvents' = timelineEvents]_vars

\* the layered page played a timeline whose second event starts before its
\* first, and the timeline still is in that order
C33_Witness ==
  /\ variant = "layered"
  /\ lastCall.op = "playTimeline"
  /\ Len(timelineEvents) = 2
  /\ timelineEvents[2].startTime < timelineEvents[1].startTime
  /\ \E frame \in frames : frame.loop = playCount /\ frame.events = timelineEvents

\* ------------------------------------------------ one pointer, one button
\* a press comes only while no press is held (isDrawing is set by every press
\* that starts a line or takes a gap handle, and reset by release and leave)
NextPointer ==
  \/ \E d \in Deltas : Tick(d)
  \/ \E pos \in Positions : ~isDrawing /\ MouseDown(pos)
  \/ \E pos \in Positions : MouseMove(pos)
  \/ MouseUpOrLeave
  \/ \E pos \in Positions : Click(pos)
  \/ ToggleEditMode

SpecPointer == CaptureInit /\ [][NextPointer]_vars

\* C34: in edit mode no pointer event on the canvas (down, move, up, leave,
\* click) appends a point or issues an attack; and a point is appended only
\* by a press in drawing mode or by a move while that press is held.  With
\* one press at a time, a held gap handle (selectedGap set on page.tsx and
\* part_002) means the press that is held is not a drawing press.
C34_AppendOnlyWhileDrawing ==
  [][/\ (/\ HasEditMode /\ editingState.isEditMode
         /\ \/ \E pos \in Positions : MouseDown(pos) \/ MouseMove(pos) \/ Click(pos)
            \/ MouseUpOrLeave) =>
          /\ Len(waveformPoints') = Len(waveformPoints)
          /\ \A i \in 1..Len(lastCall'.log) : lastCall'.log[i].kind # "triggerAttack"
     /\ Len(waveformPoints') > Len(waveformPoints) =>
          \/ lastCall'.op = "startDrawing"
          \/ isDrawing /\ selectedGap = Null
    ]_vars

\* C35: in the commands the capture handlers (startDrawing, draw,
\* stopDrawing) send to the main voice, an attack is never followed by
\* another attack without a release between them, within one handler call or
\* from one call to the next command-issuing call; and the last command of
\* every pointer-up or pointer-leave is a release.
C35_AttackThenRelease ==
  [][LET captureOps == {"startDrawing", "draw", "stopDrawing"}
         gate(call) ==
           IF call.op \in captureOps
           THEN SelectSeq(call.log,
                          LAMBDA c : /\ c.voice = "main"
                                     /\ c.kind \in {"triggerAttack", "triggerRelease"})
           ELSE <<>>
         heard == gate(lastCall) \o gate(lastCall')
     IN  /\ gate(lastCall') # <<>> =>
              \A i \in 1..(Len(heard) - 1) :
                ~(heard[i].kind = "triggerAttack" /\ heard[i + 1].kind = "triggerAttack")
         /\ MouseUpOrLeave =>
              /\ lastCall'.log # <<>>
              /\ lastCall'.log[Len(lastCall'.log)].kind = "triggerRelease"
    ]_vars

\* C36: addToTimeline appends one event and leaves the others as they were;
\* the new event starts at max(0, latest end of the events there were), lasts
\* lastPoint.time - firstPoint.time + 0.5 s of its sound, and its interval
\* overlaps the interval of no event that was there.
C36_AddedAfterLastEnd ==
  [][\A k \in 1..Len(savedSounds) :
       addToTimeline(k) =>
         LET new == timelineEvents'[Len(timelineEvents')]
             points == findSound(savedSounds[k].id).points
         IN  /\ Len(timelineEvents') = Len(timelineEvents) + 1
             /\ SubSeq(timelineEvents', 1, Len(timelineEvents)) = timelineEvents
             /\ new.soundId = savedSounds[k].id
             /\ new.startTime = Max({0} \union eventEnds(timelineEvents))
             /\ new.duration = points[Len(points)].time - points[1].time + TAIL
             /\ \A j \in 1..Len(timelineEvents) :
                  ~(/\ new.startTime < timelineEvents[j].startTime + timelineEvents[j].duration
                    /\ timelineEvents[j].startTime < new.startTime + new.duration)
    ]_vars

====
